---- MODULE Spec2Model ----
(***************************************************************************)
(* A model of the totp package: NewToken (Key URI parsing and validation), *)
(* the accessors, and Generate/hotp (RFC 6238 / RFC 4226).                 *)
(*                                                                         *)
(* A Go string is the sequence of its bytes, numbers in 0..255, as is a    *)
(* byte slice; Str(s) is the Go string that the TLA+ string s spells.  The *)
(* names of the algorithms and of the errors, and the decimal digits of an *)
(* OTP, are TLA+ strings.                                                  *)
(***************************************************************************)
EXTENDS Integers, Sequences, FiniteSets, TLC

\* A function over 1..n as an explicit tuple.
Tup(f) == f \o <<>>

\* The characters of a TLA+ string.
Chars(s) == Tup([i \in 1..Len(s) |-> SubSeq(s, i, i)])

\* The concatenation of the sequences cs[lo] .. cs[hi], and of all of cs.
RECURSIVE JoinFrom(_, _, _)
JoinFrom(cs, lo, hi) ==
    IF lo > hi THEN <<>>
    ELSE IF lo = hi THEN cs[lo]
    ELSE JoinFrom(cs, lo, (lo + hi) \div 2) \o JoinFrom(cs, ((lo + hi) \div 2) + 1, hi)
Join(cs) == JoinFrom(cs, 1, Len(cs))

\* The ASCII characters of codes 32 to 95 and of codes 97 to 126; code 96,
\* the grave accent, is written as the number wherever it is needed.
Ascii32 ==
    Chars(" !") \o <<"\"">>
        \o Chars("#$%&'()*+,-./0123456789:;<=>?@ABCDEFGHIJKLMNOPQRSTUVWXYZ[")
        \o <<"\\">> \o Chars("]^_")
Ascii97 == Chars("abcdefghijklmnopqrstuvwxyz{|}~")
\* The byte of the character c.
ByteOfChar(c) ==
    IF c = "\t" THEN 9
    ELSE IF c = "\n" THEN 10
    ELSE IF c = "\f" THEN 12
    ELSE IF c = "\r" THEN 13
    ELSE IF \E i \in 1..Len(Ascii32) : Ascii32[i] = c
    THEN 31 + (CHOOSE i \in 1..Len(Ascii32) : Ascii32[i] = c)
    ELSE 96 + (CHOOSE i \in 1..Len(Ascii97) : Ascii97[i] = c)
\* The Go string of a TLA+ string, and the set of its bytes.
Str(s) == Tup([i \in 1..Len(s) |-> ByteOfChar(SubSeq(s, i, i))])
Bytes(s) == {ByteOfChar(SubSeq(s, i, i)) : i \in 1..Len(s)}

\* 'a'..'z' or 'A'..'Z'; '0'..'9'.
IsLetter(c) == c \in 97..122 \/ c \in 65..90
IsDigit(c) == c \in 48..57

\* The least and the greatest element of a set of numbers, 0 for the empty set.
MinOf(P) == IF P = {} THEN 0 ELSE CHOOSE i \in P : \A j \in P : i <= j
MaxOf(P) == IF P = {} THEN 0 ELSE CHOOSE i \in P : \A j \in P : j <= i

\* strings.IndexByte, LastIndexByte, Index, HasPrefix, Count: positions are
\* counted from 1, and 0 means absent (-1 in Go).
IndexByte(s, c) == MinOf({i \in 1..Len(s) : s[i] = c})
LastIndexByte(s, c) == MaxOf({i \in 1..Len(s) : s[i] = c})
Index(s, substr) ==
    MinOf({i \in 1..(Len(s) - Len(substr) + 1) : SubSeq(s, i, i + Len(substr) - 1) = substr})
HasPrefix(s, p) == Len(s) >= Len(p) /\ SubSeq(s, 1, Len(p)) = p
Count(s, c) == Cardinality({i \in 1..Len(s) : s[i] = c})

\* strings.Trim(s, "/"): s without its leading and trailing '/' (47) bytes.
RECURSIVE TrimLeftSlash(_)
TrimLeftSlash(s) ==
    IF Len(s) > 0 /\ s[1] = 47 THEN TrimLeftSlash(SubSeq(s, 2, Len(s))) ELSE s
RECURSIVE TrimRightSlash(_)
TrimRightSlash(s) ==
    IF Len(s) > 0 /\ s[Len(s)] = 47
    THEN TrimRightSlash(SubSeq(s, 1, Len(s) - 1)) ELSE s
strings_Trim_LeftOnly(s) == TrimLeftSlash(s)
strings_Trim(s) == TrimRightSlash(TrimLeftSlash(s))

(***************************************************************************)
(* unicode/utf8 and unicode, as strings.ToUpper and strings.ToLower use    *)
(* them.                                                                   *)
(***************************************************************************)
\* utf8.RuneError, U+FFFD.
RuneError == 65533

\* utf8.DecodeRuneInString(s[i-1:]): the rune that starts at position i of s
\* and its width in bytes; (RuneError, 1) for a byte that starts no valid
\* encoding.  The second byte of an encoding has a range of its own after
\* E0, ED, F0 and F4 (no overlong form, no surrogate, nothing above U+10FFFF).
utf8_DecodeRune(s, i) ==
    LET b0 == s[i]
        need == IF b0 < 128 THEN 1
                ELSE IF b0 \in 194..223 THEN 2
                ELSE IF b0 \in 224..239 THEN 3
                ELSE IF b0 \in 240..244 THEN 4
                ELSE 0
        lo == IF b0 = 224 THEN 160 ELSE IF b0 = 240 THEN 144 ELSE 128
        hi == IF b0 = 237 THEN 159 ELSE IF b0 = 244 THEN 143 ELSE 191
    IN  IF need = 1 THEN [r |-> b0, width |-> 1]
        ELSE IF \/ need = 0
                \/ i + need - 1 > Len(s)
                \/ s[i + 1] \notin lo..hi
                \/ need >= 3 /\ s[i + 2] \notin 128..191
                \/ need = 4 /\ s[i + 3] \notin 128..191
        THEN [r |-> RuneError, width |-> 1]
        ELSE IF need = 2
        THEN [r |-> (b0 % 32) * 64 + (s[i + 1] % 64), width |-> 2]
        ELSE IF need = 3
        THEN [r |-> (b0 % 16) * 4096 + (s[i + 1] % 64) * 64 + (s[i + 2] % 64), width |-> 3]
        ELSE [r |-> (b0 % 8) * 262144 + (s[i + 1] % 64) * 4096 + (s[i + 2] % 64) * 64
                        + (s[i + 3] % 64),
              width |-> 4]

\* utf8.AppendRune: the encoding of rune r; that of RuneError for a surrogate
\* and for a number that is no code point.
utf8_EncodeRune(r) ==
    IF r >= 0 /\ r < 128 THEN <<r>>
    ELSE IF r >= 128 /\ r < 2048 THEN <<192 + (r \div 64), 128 + (r % 64)>>
    ELSE IF r < 0 \/ r > 1114111 \/ r \in 55296..57343 THEN <<239, 191, 189>>
    ELSE IF r < 65536 THEN <<224 + (r \div 4096), 128 + ((r \div 64) % 64), 128 + (r % 64)>>
    ELSE <<240 + (r \div 262144), 128 + ((r \div 4096) % 64), 128 + ((r \div 64) % 64),
           128 + (r % 64)>>

\* unicode.UpperCase and unicode.LowerCase, the places in the Delta of a row of
\* CaseRanges.
UpperCase == 0
LowerCase == 1
\* unicode.CaseRanges, the simple case mappings of the runes above U+007F: a
\* row <<lo, hi, stride, toUpper, toLower>> gives, for the runes lo, lo +
\* stride, .. up to hi, what is added to the rune for its upper and for its
\* lower case.  A rune of no row has no other case.
CaseRanges ==
    <<<<181, 181, 1, 743, 0>>, <<192, 214, 1, 0, 32>>, <<216, 222, 1, 0, 32>>, <<224, 246, 1, -32, 0>>,
       <<248, 254, 1, -32, 0>>, <<255, 255, 1, 121, 0>>, <<256, 302, 2, 0, 1>>, <<257, 303, 2, -1, 0>>,
       <<304, 304, 1, 0, -199>>, <<305, 305, 1, -232, 0>>, <<306, 310, 2, 0, 1>>, <<307, 311, 2, -1, 0>>,
       <<313, 327, 2, 0, 1>>, <<314, 328, 2, -1, 0>>, <<330, 374, 2, 0, 1>>, <<331, 375, 2, -1, 0>>,
       <<376, 376, 1, 0, -121>>, <<377, 381, 2, 0, 1>>, <<378, 382, 2, -1, 0>>, <<383, 383, 1, -300, 0>>,
       <<384, 384, 1, 195, 0>>, <<385, 385, 1, 0, 210>>, <<386, 388, 2, 0, 1>>, <<387, 389, 2, -1, 0>>,
       <<390, 390, 1, 0, 206>>, <<391, 391, 1, 0, 1>>, <<392, 392, 1, -1, 0>>, <<393, 394, 1, 0, 205>>,
       <<395, 395, 1, 0, 1>>, <<396, 396, 1, -1, 0>>, <<398, 398, 1, 0, 79>>, <<399, 399, 1, 0, 202>>,
       <<400, 400, 1, 0, 203>>, <<401, 401, 1, 0, 1>>, <<402, 402, 1, -1, 0>>, <<403, 403, 1, 0, 205>>,
       <<404, 404, 1, 0, 207>>, <<405, 405, 1, 97, 0>>, <<406, 406, 1, 0, 211>>, <<407, 407, 1, 0, 209>>,
       <<408, 408, 1, 0, 1>>, <<409, 409, 1, -1, 0>>, <<410, 410, 1, 163, 0>>, <<412, 412, 1, 0, 211>>,
       <<413, 413, 1, 0, 213>>, <<414, 414, 1, 130, 0>>, <<415, 415, 1, 0, 214>>, <<416, 420, 2, 0, 1>>,
       <<417, 421, 2, -1, 0>>, <<422, 422, 1, 0, 218>>, <<423, 423, 1, 0, 1>>, <<424, 424, 1, -1, 0>>,
       <<425, 425, 1, 0, 218>>, <<428, 428, 1, 0, 1>>, <<429, 429, 1, -1, 0>>, <<430, 430, 1, 0, 218>>,
       <<431, 431, 1, 0, 1>>, <<432, 432, 1, -1, 0>>, <<433, 434, 1, 0, 217>>, <<435, 437, 2, 0, 1>>,
       <<436, 438, 2, -1, 0>>, <<439, 439, 1, 0, 219>>, <<440, 440, 1, 0, 1>>, <<441, 441, 1, -1, 0>>,
       <<444, 444, 1, 0, 1>>, <<445, 445, 1, -1, 0>>, <<447, 447, 1, 56, 0>>, <<452, 452, 1, 0, 2>>,
       <<453, 453, 1, -1, 1>>, <<454, 454, 1, -2, 0>>, <<455, 455, 1, 0, 2>>, <<456, 456, 1, -1, 1>>,
       <<457, 457, 1, -2, 0>>, <<458, 458, 1, 0, 2>>, <<459, 459, 1, -1, 1>>, <<460, 460, 1, -2, 0>>,
       <<461, 475, 2, 0, 1>>, <<462, 476, 2, -1, 0>>, <<477, 477, 1, -79, 0>>, <<478, 494, 2, 0, 1>>,
       <<479, 495, 2, -1, 0>>, <<497, 497, 1, 0, 2>>, <<498, 498, 1, -1, 1>>, <<499, 499, 1, -2, 0>>,
       <<500, 500, 1, 0, 1>>, <<501, 501, 1, -1, 0>>, <<502, 502, 1, 0, -97>>, <<503, 503, 1, 0, -56>>,
       <<504, 542, 2, 0, 1>>, <<505, 543, 2, -1, 0>>, <<544, 544, 1, 0, -130>>, <<546, 562, 2, 0, 1>>,
       <<547, 563, 2, -1, 0>>, <<570, 570, 1, 0, 10795>>, <<571, 571, 1, 0, 1>>, <<572, 572, 1, -1, 0>>,
       <<573, 573, 1, 0, -163>>, <<574, 574, 1, 0, 10792>>, <<575, 576, 1, 10815, 0>>, <<577, 577, 1, 0, 1>>,
       <<578, 578, 1, -1, 0>>, <<579, 579, 1, 0, -195>>, <<580, 580, 1, 0, 69>>, <<581, 581, 1, 0, 71>>,
       <<582, 590, 2, 0, 1>>, <<583, 591, 2, -1, 0>>, <<592, 592, 1, 10783, 0>>, <<593, 593, 1, 10780, 0>>,
       <<594, 594, 1, 10782, 0>>, <<595, 595, 1, -210, 0>>, <<596, 596, 1, -206, 0>>, <<598, 599, 1, -205, 0>>,
       <<601, 601, 1, -202, 0>>, <<603, 603, 1, -203, 0>>, <<604, 604, 1, 42319, 0>>, <<608, 608, 1, -205, 0>>,
       <<609, 609, 1, 42315, 0>>, <<611, 611, 1, -207, 0>>, <<613, 613, 1, 42280, 0>>, <<614, 614, 1, 42308, 0>>,
       <<616, 616, 1, -209, 0>>, <<617, 617, 1, -211, 0>>, <<618, 618, 1, 42308, 0>>, <<619, 619, 1, 10743, 0>>,
       <<620, 620, 1, 42305, 0>>, <<623, 623, 1, -211, 0>>, <<625, 625, 1, 10749, 0>>, <<626, 626, 1, -213, 0>>,
       <<629, 629, 1, -214, 0>>, <<637, 637, 1, 10727, 0>>, <<640, 640, 1, -218, 0>>, <<642, 642, 1, 42307, 0>>,
       <<643, 643, 1, -218, 0>>, <<647, 647, 1, 42282, 0>>, <<648, 648, 1, -218, 0>>, <<649, 649, 1, -69, 0>>,
       <<650, 651, 1, -217, 0>>, <<652, 652, 1, -71, 0>>, <<658, 658, 1, -219, 0>>, <<669, 669, 1, 42261, 0>>,
       <<670, 670, 1, 42258, 0>>, <<837, 837, 1, 84, 0>>, <<880, 882, 2, 0, 1>>, <<881, 883, 2, -1, 0>>,
       <<886, 886, 1, 0, 1>>, <<887, 887, 1, -1, 0>>, <<891, 893, 1, 130, 0>>, <<895, 895, 1, 0, 116>>,
       <<902, 902, 1, 0, 38>>, <<904, 906, 1, 0, 37>>, <<908, 908, 1, 0, 64>>, <<910, 911, 1, 0, 63>>,
       <<913, 929, 1, 0, 32>>, <<931, 939, 1, 0, 32>>, <<940, 940, 1, -38, 0>>, <<941, 943, 1, -37, 0>>,
       <<945, 961, 1, -32, 0>>, <<962, 962, 1, -31, 0>>, <<963, 971, 1, -32, 0>>, <<972, 972, 1, -64, 0>>,
       <<973, 974, 1, -63, 0>>, <<975, 975, 1, 0, 8>>, <<976, 976, 1, -62, 0>>, <<977, 977, 1, -57, 0>>,
       <<981, 981, 1, -47, 0>>, <<982, 982, 1, -54, 0>>, <<983, 983, 1, -8, 0>>, <<984, 1006, 2, 0, 1>>,
       <<985, 1007, 2, -1, 0>>, <<1008, 1008, 1, -86, 0>>, <<1009, 1009, 1, -80, 0>>, <<1010, 1010, 1, 7, 0>>,
       <<1011, 1011, 1, -116, 0>>, <<1012, 1012, 1, 0, -60>>, <<1013, 1013, 1, -96, 0>>, <<1015, 1015, 1, 0, 1>>,
       <<1016, 1016, 1, -1, 0>>, <<1017, 1017, 1, 0, -7>>, <<1018, 1018, 1, 0, 1>>, <<1019, 1019, 1, -1, 0>>,
       <<1021, 1023, 1, 0, -130>>, <<1024, 1039, 1, 0, 80>>, <<1040, 1071, 1, 0, 32>>, <<1072, 1103, 1, -32, 0>>,
       <<1104, 1119, 1, -80, 0>>, <<1120, 1152, 2, 0, 1>>, <<1121, 1153, 2, -1, 0>>, <<1162, 1214, 2, 0, 1>>,
       <<1163, 1215, 2, -1, 0>>, <<1216, 1216, 1, 0, 15>>, <<1217, 1229, 2, 0, 1>>, <<1218, 1230, 2, -1, 0>>,
       <<1231, 1231, 1, -15, 0>>, <<1232, 1326, 2, 0, 1>>, <<1233, 1327, 2, -1, 0>>, <<1329, 1366, 1, 0, 48>>,
       <<1377, 1414, 1, -48, 0>>, <<4256, 4293, 1, 0, 7264>>, <<4295, 4295, 1, 0, 7264>>, <<4301, 4301, 1, 0, 7264>>,
       <<4304, 4346, 1, 3008, 0>>, <<4349, 4351, 1, 3008, 0>>, <<5024, 5103, 1, 0, 38864>>, <<5104, 5109, 1, 0, 8>>,
       <<5112, 5117, 1, -8, 0>>, <<7296, 7296, 1, -6254, 0>>, <<7297, 7297, 1, -6253, 0>>, <<7298, 7298, 1, -6244, 0>>,
       <<7299, 7300, 1, -6242, 0>>, <<7301, 7301, 1, -6243, 0>>, <<7302, 7302, 1, -6236, 0>>, <<7303, 7303, 1, -6181, 0>>,
       <<7304, 7304, 1, 35266, 0>>, <<7312, 7354, 1, 0, -3008>>, <<7357, 7359, 1, 0, -3008>>, <<7545, 7545, 1, 35332, 0>>,
       <<7549, 7549, 1, 3814, 0>>, <<7566, 7566, 1, 35384, 0>>, <<7680, 7828, 2, 0, 1>>, <<7681, 7829, 2, -1, 0>>,
       <<7835, 7835, 1, -59, 0>>, <<7838, 7838, 1, 0, -7615>>, <<7840, 7934, 2, 0, 1>>, <<7841, 7935, 2, -1, 0>>,
       <<7936, 7943, 1, 8, 0>>, <<7944, 7951, 1, 0, -8>>, <<7952, 7957, 1, 8, 0>>, <<7960, 7965, 1, 0, -8>>,
       <<7968, 7975, 1, 8, 0>>, <<7976, 7983, 1, 0, -8>>, <<7984, 7991, 1, 8, 0>>, <<7992, 7999, 1, 0, -8>>,
       <<8000, 8005, 1, 8, 0>>, <<8008, 8013, 1, 0, -8>>, <<8017, 8023, 2, 8, 0>>, <<8025, 8031, 2, 0, -8>>,
       <<8032, 8039, 1, 8, 0>>, <<8040, 8047, 1, 0, -8>>, <<8048, 8049, 1, 74, 0>>, <<8050, 8053, 1, 86, 0>>,
       <<8054, 8055, 1, 100, 0>>, <<8056, 8057, 1, 128, 0>>, <<8058, 8059, 1, 112, 0>>, <<8060, 8061, 1, 126, 0>>,
       <<8064, 8071, 1, 8, 0>>, <<8072, 8079, 1, 0, -8>>, <<8080, 8087, 1, 8, 0>>, <<8088, 8095, 1, 0, -8>>,
       <<8096, 8103, 1, 8, 0>>, <<8104, 8111, 1, 0, -8>>, <<8112, 8113, 1, 8, 0>>, <<8115, 8115, 1, 9, 0>>,
       <<8120, 8121, 1, 0, -8>>, <<8122, 8123, 1, 0, -74>>, <<8124, 8124, 1, 0, -9>>, <<8126, 8126, 1, -7205, 0>>,
       <<8131, 8131, 1, 9, 0>>, <<8136, 8139, 1, 0, -86>>, <<8140, 8140, 1, 0, -9>>, <<8144, 8145, 1, 8, 0>>,
       <<8152, 8153, 1, 0, -8>>, <<8154, 8155, 1, 0, -100>>, <<8160, 8161, 1, 8, 0>>, <<8165, 8165, 1, 7, 0>>,
       <<8168, 8169, 1, 0, -8>>, <<8170, 8171, 1, 0, -112>>, <<8172, 8172, 1, 0, -7>>, <<8179, 8179, 1, 9, 0>>,
       <<8184, 8185, 1, 0, -128>>, <<8186, 8187, 1, 0, -126>>, <<8188, 8188, 1, 0, -9>>, <<8486, 8486, 1, 0, -7517>>,
       <<8490, 8490, 1, 0, -8383>>, <<8491, 8491, 1, 0, -8262>>, <<8498, 8498, 1, 0, 28>>, <<8526, 8526, 1, -28, 0>>,
       <<8544, 8559, 1, 0, 16>>, <<8560, 8575, 1, -16, 0>>, <<8579, 8579, 1, 0, 1>>, <<8580, 8580, 1, -1, 0>>,
       <<9398, 9423, 1, 0, 26>>, <<9424, 9449, 1, -26, 0>>, <<11264, 11311, 1, 0, 48>>, <<11312, 11359, 1, -48, 0>>,
       <<11360, 11360, 1, 0, 1>>, <<11361, 11361, 1, -1, 0>>, <<11362, 11362, 1, 0, -10743>>, <<11363, 11363, 1, 0, -3814>>,
       <<11364, 11364, 1, 0, -10727>>, <<11365, 11365, 1, -10795, 0>>, <<11366, 11366, 1, -10792, 0>>, <<11367, 11371, 2, 0, 1>>,
       <<11368, 11372, 2, -1, 0>>, <<11373, 11373, 1, 0, -10780>>, <<11374, 11374, 1, 0, -10749>>, <<11375, 11375, 1, 0, -10783>>,
       <<11376, 11376, 1, 0, -10782>>, <<11378, 11378, 1, 0, 1>>, <<11379, 11379, 1, -1, 0>>, <<11381, 11381, 1, 0, 1>>,
       <<11382, 11382, 1, -1, 0>>, <<11390, 11391, 1, 0, -10815>>, <<11392, 11490, 2, 0, 1>>, <<11393, 11491, 2, -1, 0>>,
       <<11499, 11501, 2, 0, 1>>, <<11500, 11502, 2, -1, 0>>, <<11506, 11506, 1, 0, 1>>, <<11507, 11507, 1, -1, 0>>,
       <<11520, 11557, 1, -7264, 0>>, <<11559, 11559, 1, -7264, 0>>, <<11565, 11565, 1, -7264, 0>>, <<42560, 42604, 2, 0, 1>>,
       <<42561, 42605, 2, -1, 0>>, <<42624, 42650, 2, 0, 1>>, <<42625, 42651, 2, -1, 0>>, <<42786, 42798, 2, 0, 1>>,
       <<42787, 42799, 2, -1, 0>>, <<42802, 42862, 2, 0, 1>>, <<42803, 42863, 2, -1, 0>>, <<42873, 42875, 2, 0, 1>>,
       <<42874, 42876, 2, -1, 0>>, <<42877, 42877, 1, 0, -35332>>, <<42878, 42886, 2, 0, 1>>, <<42879, 42887, 2, -1, 0>>,
       <<42891, 42891, 1, 0, 1>>, <<42892, 42892, 1, -1, 0>>, <<42893, 42893, 1, 0, -42280>>, <<42896, 42898, 2, 0, 1>>,
       <<42897, 42899, 2, -1, 0>>, <<42900, 42900, 1, 48, 0>>, <<42902, 42920, 2, 0, 1>>, <<42903, 42921, 2, -1, 0>>,
       <<42922, 42922, 1, 0, -42308>>, <<42923, 42923, 1, 0, -42319>>, <<42924, 42924, 1, 0, -42315>>, <<42925, 42925, 1, 0, -42305>>,
       <<42926, 42926, 1, 0, -42308>>, <<42928, 42928, 1, 0, -42258>>, <<42929, 42929, 1, 0, -42282>>, <<42930, 42930, 1, 0, -42261>>,
       <<42931, 42931, 1, 0, 928>>, <<42932, 42946, 2, 0, 1>>, <<42933, 42947, 2, -1, 0>>, <<42948, 42948, 1, 0, -48>>,
       <<42949, 42949, 1, 0, -42307>>, <<42950, 42950, 1, 0, -35384>>, <<42951, 42953, 2, 0, 1>>, <<42952, 42954, 2, -1, 0>>,
       <<42960, 42960, 1, 0, 1>>, <<42961, 42961, 1, -1, 0>>, <<42966, 42968, 2, 0, 1>>, <<42967, 42969, 2, -1, 0>>,
       <<42997, 42997, 1, 0, 1>>, <<42998, 42998, 1, -1, 0>>, <<43859, 43859, 1, -928, 0>>, <<43888, 43967, 1, -38864, 0>>,
       <<65313, 65338, 1, 0, 32>>, <<65345, 65370, 1, -32, 0>>, <<66560, 66599, 1, 0, 40>>, <<66600, 66639, 1, -40, 0>>,
       <<66736, 66771, 1, 0, 40>>, <<66776, 66811, 1, -40, 0>>, <<66928, 66964, 2, 0, 39>>, <<66929, 66937, 2, 0, 39>>,
       <<66941, 66953, 2, 0, 39>>, <<66957, 66961, 2, 0, 39>>, <<66965, 66965, 1, 0, 39>>, <<66967, 67003, 2, -39, 0>>,
       <<66968, 66976, 2, -39, 0>>, <<66980, 66992, 2, -39, 0>>, <<66996, 67000, 2, -39, 0>>, <<67004, 67004, 1, -39, 0>>,
       <<68736, 68786, 1, 0, 64>>, <<68800, 68850, 1, -64, 0>>, <<71840, 71871, 1, 0, 32>>, <<71872, 71903, 1, -32, 0>>,
       <<93760, 93791, 1, 0, 32>>, <<93792, 93823, 1, -32, 0>>, <<125184, 125217, 1, 0, 34>>, <<125218, 125251, 1, -34, 0>>>>

\* unicode.To(_case, r) for r above U+007F, on the rows of caseRange.
unicode_to(case, r, caseRange) ==
    LET rows == {k \in 1..Len(caseRange) :
                    /\ caseRange[k][1] <= r
                    /\ r <= caseRange[k][2]
                    /\ (r - caseRange[k][1]) % caseRange[k][3] = 0}
    IN  IF rows = {} THEN r ELSE r + caseRange[MinOf(rows)][4 + case]
unicode_To(case, r) == unicode_to(case, r, CaseRanges)
\* unicode.ToUpper(r) for case = UpperCase, unicode.ToLower(r) for LowerCase:
\* up to U+007F the letters 'a'..'z' ('A'..'Z') are moved by 32, above it
\* the table decides.
unicode_ToCase(case, r) ==
    IF r > 127 THEN unicode_To(case, r)
    ELSE IF case = UpperCase /\ r \in 97..122 THEN r - 32
    ELSE IF case = LowerCase /\ r \in 65..90 THEN r + 32
    ELSE r

\* strings.Map(unicode.ToUpper, s) and strings.Map(unicode.ToLower, s) from
\* position i on: rune by rune, the encoding of the mapped rune; a byte that
\* starts no valid encoding is read as RuneError and written as U+FFFD.
RECURSIVE strings_MapFrom(_, _, _)
strings_MapFrom(case, s, i) ==
    IF i > Len(s) THEN <<>>
    ELSE utf8_EncodeRune(unicode_ToCase(case, utf8_DecodeRune(s, i).r))
            \o strings_MapFrom(case, s, i + utf8_DecodeRune(s, i).width)
strings_Map(case, s) == strings_MapFrom(case, s, 1)

\* strings.ToUpper and strings.ToLower: byte by byte when every byte is
\* ASCII ('a'..'z' less 32, 'A'..'Z' plus 32), and rune by rune otherwise.
IsASCII(s) == \A i \in 1..Len(s) : s[i] < 128
strings_ToLower(s) ==
    IF IsASCII(s) THEN Tup([i \in 1..Len(s) |-> IF s[i] \in 65..90 THEN s[i] + 32 ELSE s[i]])
    ELSE strings_Map(LowerCase, s)
strings_ToUpper(s) ==
    IF IsASCII(s) THEN Tup([i \in 1..Len(s) |-> IF s[i] \in 97..122 THEN s[i] - 32 ELSE s[i]])
    ELSE strings_Map(UpperCase, s)

(***************************************************************************)
(* net/url: Parse and Query, as NewToken uses them.                        *)
(***************************************************************************)
\* net/url ishex and unhex.
IsHex(c) == IsDigit(c) \/ c \in 97..102 \/ c \in 65..70
HexVal(c) ==
    IF IsDigit(c) THEN c - 48 ELSE IF c \in 97..102 THEN c - 97 + 10 ELSE c - 65 + 10

\* net/url stringContainsCTLByte: a byte below ' ' or the byte 0x7f.
stringContainsCTLByte(s) == \E i \in 1..Len(s) : s[i] < 32 \/ s[i] = 127

\* net/url shouldEscape(c, encodeHost): every byte but the letters, the
\* digits, the sub-delimiters a host may hold, '"' (34), and - _ . ~ .
HostBytes == Bytes("!$&'()*+,;=:[]<>") \cup {34} \cup Bytes("-_.~")
ShouldEscapeHost(c) == ~ (IsLetter(c) \/ IsDigit(c) \/ c \in HostBytes)

\* net/url unescape(s, mode), mode one of "encodePath", "encodeHost",
\* "encodeZone", "encodeUserPassword", "encodeQueryComponent" and
\* "encodeFragment".  A '%' (37) is always the start of an escape, the two
\* bytes after a valid one being hexadecimal digits, so each position of s is
\* judged by itself.
\* Position i makes unescape fail: a malformed escape; in a host an escape of
\* a byte below 0x80 other than "%25"; in a zone an escape, other than "%25"
\* and "%20", of a byte a host must escape; in a host or a zone an ASCII byte
\* that must be escaped.
UnescapeBad(s, i, mode) ==
    IF s[i] = 37
    THEN \/ i + 2 > Len(s)
         \/ ~IsHex(s[i + 1])
         \/ ~IsHex(s[i + 2])
         \/ mode = "encodeHost" /\ HexVal(s[i + 1]) < 8 /\ SubSeq(s, i, i + 2) # <<37, 50, 53>>
         \/ /\ mode = "encodeZone"
            /\ SubSeq(s, i, i + 2) # <<37, 50, 53>>
            /\ 16 * HexVal(s[i + 1]) + HexVal(s[i + 2]) # 32
            /\ ShouldEscapeHost(16 * HexVal(s[i + 1]) + HexVal(s[i + 2]))
    ELSE mode \in {"encodeHost", "encodeZone"} /\ s[i] < 128 /\ ShouldEscapeHost(s[i])
\* What position i adds to the result: the escaped byte, nothing for the two
\* digits of an escape, a space for '+' (43) in a query component, else the
\* byte itself.
UnescapeAt(s, i, mode) ==
    IF s[i] = 37
    THEN <<16 * HexVal(s[i + 1]) + HexVal(s[i + 2])>>
    ELSE IF (i >= 2 /\ s[i - 1] = 37) \/ (i >= 3 /\ s[i - 2] = 37)
    THEN <<>>
    ELSE IF s[i] = 43 /\ mode = "encodeQueryComponent" THEN <<32>>
    ELSE <<s[i]>>
Unescape(s, mode) ==
    IF \E i \in 1..Len(s) : UnescapeBad(s, i, mode)
    THEN [ok |-> FALSE, s |-> <<>>]
    ELSE [ok |-> TRUE, s |-> Join([i \in 1..Len(s) |-> UnescapeAt(s, i, mode)])]

\* net/url getScheme: the scheme before the first ':' (58) and the rest.  The
\* loop ends at the first byte that is no letter and, unless it is the first
\* byte, no digit, '+', '-' or '.': a ':' there ends the scheme, and is an
\* error as the first byte; any other byte means there is no scheme.
getScheme(rawURL) ==
    LET i == MinOf({k \in 1..Len(rawURL) :
                       ~ \/ IsLetter(rawURL[k])
                         \/ k > 1 /\ (IsDigit(rawURL[k]) \/ rawURL[k] \in {43, 45, 46})})
    IN  IF i = 0 \/ rawURL[i] # 58 THEN [err |-> FALSE, scheme |-> <<>>, rest |-> rawURL]
        ELSE IF i = 1 THEN [err |-> TRUE, scheme |-> <<>>, rest |-> <<>>]
        ELSE [err |-> FALSE, scheme |-> SubSeq(rawURL, 1, i - 1),
              rest |-> SubSeq(rawURL, i + 1, Len(rawURL))]

\* net/url validOptionalPort: "" or ':' followed by decimal digits only.
validOptionalPort(port) ==
    \/ port = <<>>
    \/ /\ port[1] = 58
       /\ \A i \in 2..Len(port) : IsDigit(port[i])

\* net/url validUserinfo.
UserinfoBytes == Bytes("-._:~!$&'()*+,;=%@")
validUserinfo(s) ==
    \A i \in 1..Len(s) : IsLetter(s[i]) \/ IsDigit(s[i]) \/ s[i] \in UserinfoBytes

\* The end of parseHost for a host with a zone: the three parts put together.
parseHostZone(host1, host2, host3) ==
    IF host1.ok /\ host2.ok /\ host3.ok
    THEN [ok |-> TRUE, s |-> host1.s \o host2.s \o host3.s]
    ELSE [ok |-> FALSE, s |-> <<>>]
\* net/url parseHost.  A host that starts with '[' (91) ends at its last ']'
\* (93), after which only a port may follow; with a zone, which starts at the
\* first "%25" before the ']', the part before the zone, the zone and the part
\* from the ']' on are unescaped each by itself.  Any other host is unescaped
\* as a whole, a port after its last ':' (58) being checked first.
parseHost(host) ==
    LET bracket == HasPrefix(host, <<91>>)
        i == IF bracket THEN LastIndexByte(host, 93) ELSE LastIndexByte(host, 58)
        colonPort == IF bracket THEN SubSeq(host, i + 1, Len(host))
                     ELSE SubSeq(host, i, Len(host))
        zone == IF bracket /\ i > 0 THEN Index(SubSeq(host, 1, i - 1), <<37, 50, 53>>) ELSE 0
    IN  IF bracket /\ i = 0 THEN [ok |-> FALSE, s |-> <<>>]
        ELSE IF (bracket \/ i > 0) /\ ~validOptionalPort(colonPort)
        THEN [ok |-> FALSE, s |-> <<>>]
        ELSE IF zone > 0
        THEN parseHostZone(Unescape(SubSeq(host, 1, zone - 1), "encodeHost"),
                           Unescape(SubSeq(host, zone, i - 1), "encodeZone"),
                           Unescape(SubSeq(host, i, Len(host)), "encodeHost"))
        ELSE Unescape(host, "encodeHost")

\* net/url parseAuthority: the host after the last '@' (64).  The userinfo
\* before it must be valid and, as a whole or as the name before its first
\* ':' and the password after it, unescape without error; a host that does
\* not parse and a userinfo that does not are the same error.
parseAuthority(authority) ==
    LET i == LastIndexByte(authority, 64)
        userinfo == SubSeq(authority, 1, i - 1)
        c == IndexByte(userinfo, 58)
        username == IF c = 0 THEN userinfo ELSE SubSeq(userinfo, 1, c - 1)
        password == IF c = 0 THEN <<>> ELSE SubSeq(userinfo, c + 1, Len(userinfo))
    IN  IF /\ i > 0
           /\ \/ ~validUserinfo(userinfo)
              \/ ~Unescape(username, "encodeUserPassword").ok
              \/ ~Unescape(password, "encodeUserPassword").ok
        THEN [ok |-> FALSE, s |-> <<>>]
        ELSE parseHost(SubSeq(authority, i + 1, Len(authority)))

url_Error == [err |-> TRUE, Scheme |-> <<>>, Host |-> <<>>, Path |-> <<>>, RawQuery |-> <<>>]

\* The end of parse: the URL of the scheme, the query, the host h that
\* parseAuthority returned and the path p that setPath unescaped.
url_parseEnd(scheme, rawQuery, h, p) ==
    IF ~h.ok \/ ~p.ok THEN url_Error
    ELSE [err |-> FALSE, Scheme |-> scheme, Host |-> h.s, Path |-> p.s, RawQuery |-> rawQuery]
\* parse after the query has been cut off rest.  A rest that does not start
\* with '/' (47) is opaque after a scheme and, without one, must have no ':'
\* (58) in its first segment; a rest that starts with "//" (but, without a
\* scheme, not with "///") has an authority, which ends before the next '/'.
url_parseRest(scheme, rest, rawQuery) ==
    LET hasAuth == HasPrefix(rest, <<47, 47>>)
                       /\ (scheme # <<>> \/ ~HasPrefix(rest, <<47, 47, 47>>))
        auth0 == SubSeq(rest, 3, Len(rest))
        s == IndexByte(auth0, 47)
        authority == IF s = 0 THEN auth0 ELSE SubSeq(auth0, 1, s - 1)
        path == IF ~hasAuth THEN rest
                ELSE IF s = 0 THEN <<>> ELSE SubSeq(auth0, s, Len(auth0))
        seg == IF IndexByte(rest, 47) = 0 THEN rest
               ELSE SubSeq(rest, 1, IndexByte(rest, 47) - 1)
    IN  IF ~HasPrefix(rest, <<47>>) /\ scheme # <<>>
        THEN [err |-> FALSE, Scheme |-> scheme, Host |-> <<>>, Path |-> <<>>,
              RawQuery |-> rawQuery]
        ELSE IF ~HasPrefix(rest, <<47>>) /\ IndexByte(seg, 58) > 0 THEN url_Error
        ELSE url_parseEnd(scheme, rawQuery,
                          IF hasAuth THEN parseAuthority(authority)
                          ELSE [ok |-> TRUE, s |-> <<>>],
                          Unescape(path, "encodePath"))
\* parse after getScheme has returned the scheme, now in lower case, and the
\* rest: the query starts after the first '?' (63); a rest whose only '?' is
\* its last byte has an empty query.
url_parseQuery(scheme, rest) ==
    LET q == IndexByte(rest, 63)
        forceQuery == q > 0 /\ q = Len(rest) /\ Count(rest, 63) = 1
    IN  url_parseRest(scheme,
                      IF q = 0 THEN rest ELSE SubSeq(rest, 1, q - 1),
                      IF q = 0 \/ forceQuery THEN <<>> ELSE SubSeq(rest, q + 1, Len(rest)))
\* net/url parse(rawURL, false) after the fragment has been cut off.
url_parse(u) ==
    IF stringContainsCTLByte(u) THEN url_Error
    ELSE IF u = <<42>>
    THEN [err |-> FALSE, Scheme |-> <<>>, Host |-> <<>>, Path |-> <<42>>, RawQuery |-> <<>>]
    ELSE IF getScheme(u).err THEN url_Error
    ELSE url_parseQuery(strings_ToLower(getScheme(u).scheme), getScheme(u).rest)

\* The setFragment method of URL on what parse returned.
setFragment(r, frag) ==
    IF r.err THEN r
    ELSE IF ~Unescape(frag, "encodeFragment").ok THEN url_Error
    ELSE r
\* url.Parse(rawURL): cut off "#fragment" at the first '#' (35), parse the
\* rest, then unescape the fragment.
url_Parse(rawURL) ==
    LET i == IndexByte(rawURL, 35)
    IN  setFragment(url_parse(IF i = 0 THEN rawURL ELSE SubSeq(rawURL, 1, i - 1)),
                    IF i = 0 THEN <<>> ELSE SubSeq(rawURL, i + 1, Len(rawURL)))

\* url.ParseQuery as the Query method of URL uses it: the key/value pairs in order, cut
\* at '&' (38) and at the first '=' (61); a pair with a ';' (59) or a
\* malformed escape is dropped, as is an empty segment.
RECURSIVE parseQuery(_)
parseQuery(query) ==
    IF query = <<>> THEN <<>>
    ELSE LET a == IndexByte(query, 38)
             pair == IF a = 0 THEN query ELSE SubSeq(query, 1, a - 1)
             more == IF a = 0 THEN <<>> ELSE SubSeq(query, a + 1, Len(query))
             e == IndexByte(pair, 61)
             k == Unescape(IF e = 0 THEN pair ELSE SubSeq(pair, 1, e - 1),
                           "encodeQueryComponent")
             v == Unescape(IF e = 0 THEN <<>> ELSE SubSeq(pair, e + 1, Len(pair)),
                           "encodeQueryComponent")
         IN  IF pair = <<>> \/ IndexByte(pair, 59) > 0 \/ ~k.ok \/ ~v.ok
             THEN parseQuery(more)
             ELSE <<<<k.s, v.s>>>> \o parseQuery(more)
url_Query(u) == parseQuery(u.RawQuery)

\* url.Values.Has and url.Values.Get: Get is the FIRST value of the key.
Has(q, key) == \E i \in 1..Len(q) : q[i][1] = key
Get_Last(q, key) ==
    IF Has(q, key)
    THEN q[CHOOSE i \in 1..Len(q) : q[i][1] = key /\ \A j \in (i + 1)..Len(q) : q[j][1] # key][2]
    ELSE <<>>
Get(q, key) ==
    IF Has(q, key)
    THEN q[CHOOSE i \in 1..Len(q) : q[i][1] = key /\ \A j \in 1..(i - 1) : q[j][1] # key][2]
    ELSE <<>>

(***************************************************************************)
(* strconv.Atoi and encoding/base32, as NewToken uses them.  An int of 64  *)
(* bits is a record of its sign and its magnitude, the magnitude being the *)
(* sequence of its decimal digits without leading zeros (none for 0).      *)
(***************************************************************************)
\* The digits of the natural number n, and the number of the digits ds.
RECURSIVE MagOf(_)
MagOf(n) == IF n = 0 THEN <<>> ELSE Append(MagOf(n \div 10), n % 10)
RECURSIVE MagVal(_)
MagVal(ds) == IF ds = <<>> THEN 0 ELSE 10 * MagVal(SubSeq(ds, 1, Len(ds) - 1)) + ds[Len(ds)]
\* The int of the number k, and the number of the int x (of 31 bits at most).
IntOf(k) == IF k < 0 THEN [neg |-> TRUE, mag |-> MagOf(0 - k)] ELSE [neg |-> FALSE, mag |-> MagOf(k)]
IntVal(x) == IF x.neg THEN 0 - MagVal(x.mag) ELSE MagVal(x.mag)

RECURSIVE StripZeros(_)
StripZeros(ds) ==
    IF Len(ds) > 0 /\ ds[1] = 0 THEN StripZeros(SubSeq(ds, 2, Len(ds))) ELSE ds

\* a < b for two magnitudes, and x < y for two ints.
MagLess(a, b) ==
    \/ Len(a) < Len(b)
    \/ /\ Len(a) = Len(b)
       /\ \E i \in 1..Len(a) : a[i] < b[i] /\ \A j \in 1..(i - 1) : a[j] = b[j]
IntLess(x, y) ==
    IF x.neg # y.neg THEN x.neg
    ELSE IF x.neg THEN MagLess(y.mag, x.mag)
    ELSE MagLess(x.mag, y.mag)

\* 2^64 - 1, 2^63 - 1 and 2^63.
MaxUint64Mag == <<1, 8, 4, 4, 6, 7, 4, 4, 0, 7, 3, 7, 0, 9, 5, 5, 1, 6, 1, 5>>
MaxInt64Mag == <<9, 2, 2, 3, 3, 7, 2, 0, 3, 6, 8, 5, 4, 7, 7, 5, 8, 0, 7>>
MinInt64Mag == <<9, 2, 2, 3, 3, 7, 2, 0, 3, 6, 8, 5, 4, 7, 7, 5, 8, 0, 8>>

\* strconv.Atoi on a 64-bit int: an optional sign ('+' 43, '-' 45) and decimal
\* digits, within the int64 range.  The digits are read from the left: a
\* number above 2^64 - 1 is a range error before a later byte is looked at,
\* a byte that is no digit is a syntax error, and a number outside the int64
\* range is a range error.  With a syntax error n is 0, with a range error
\* the nearest int64.
strconv_Atoi(s) ==
    LET signed == Len(s) > 0 /\ s[1] \in {43, 45}
        neg == Len(s) > 0 /\ s[1] = 45
        body == IF signed THEN SubSeq(s, 2, Len(s)) ELSE s
        bad == MinOf({i \in 1..Len(body) : ~IsDigit(body[i])})
        read == IF bad = 0 THEN body ELSE SubSeq(body, 1, bad - 1)
        sig == StripZeros(Tup([i \in 1..Len(read) |-> read[i] - 48]))
        nearest == IF neg THEN [neg |-> TRUE, mag |-> MinInt64Mag]
                   ELSE [neg |-> FALSE, mag |-> MaxInt64Mag]
    IN  IF Len(body) = 0 THEN [ok |-> FALSE, n |-> IntOf(0)]
        ELSE IF MagLess(MaxUint64Mag, sig) THEN [ok |-> FALSE, n |-> nearest]
        ELSE IF bad > 0 THEN [ok |-> FALSE, n |-> IntOf(0)]
        ELSE IF MagLess(nearest.mag, sig) THEN [ok |-> FALSE, n |-> nearest]
        ELSE [ok |-> TRUE, n |-> [neg |-> neg /\ sig # <<>>, mag |-> sig]]

\* The decodeMap of base32.StdEncoding, whose alphabet is 'A'..'Z' (65..90)
\* and '2'..'7' (50..55): the place of a byte in the alphabet, counted from 0,
\* and 0xFF for a byte outside it.
b32DecodeMap(in) ==
    IF in \in 65..90 THEN in - 65 ELSE IF in \in 50..55 THEN in - 24 ELSE 255
\* byte(enc.padChar) for NoPadding, the rune -1.
b32PadByte == 255

\* Bytes written for a quantum of dlen characters (the switch of decode).
b32QuantumBytes(dlen) ==
    IF dlen = 8 THEN 5
    ELSE IF dlen = 7 THEN 4
    ELSE IF dlen = 5 THEN 3
    ELSE IF dlen = 4 THEN 2
    ELSE IF dlen = 2 THEN 1
    ELSE 0

\* The inner loop of decode on the quantum that starts after position off of
\* src: byte j (from 0) of the quantum is the padding byte where padding may
\* be, that is with j >= 2 and fewer than 8 bytes after it.
b32IsPad(src, off, j) ==
    src[off + j + 1] = b32PadByte /\ j >= 2 /\ Len(src) - off - j - 1 < 8
\* The loop stops at the first j in 0..7 where the input has ended, or the
\* byte is the padding byte, or the byte is outside the alphabet, and else
\* at 8; it has then read j characters.
b32Dlen(src, off) ==
    MinOf({j \in 0..8 :
              \/ j = 8
              \/ j >= Len(src) - off
              \/ b32IsPad(src, off, j)
              \/ b32DecodeMap(src[off + j + 1]) = 255})
\* One turn of the outer loop of decode, the inner loop having read dlen
\* characters.  Where it stopped before the end of the input, at the padding
\* byte or not, is an error, unless at the padding byte there are bytes
\* enough after it (7 - dlen with it), those of the next 7 - dlen that exist
\* are the padding byte, and dlen is neither 3 nor 6.
b32Quantum(src, off, dlen) ==
    LET after == Len(src) - off - dlen - 1
        padOk == /\ b32IsPad(src, off, dlen)
                 /\ after + dlen >= 7
                 /\ \A k \in 0..(6 - dlen) :
                       after > k => src[off + dlen + 1 + k + 1] = b32PadByte
                 /\ dlen \notin {1, 3, 6}
        d == [j \in 1..8 |-> IF j <= dlen THEN b32DecodeMap(src[off + j]) ELSE 0]
        out == << (d[1] * 8 + d[2] \div 4) % 256,
                  (d[2] * 64 + d[3] * 2 + d[4] \div 16) % 256,
                  (d[4] * 16 + d[5] \div 2) % 256,
                  (d[5] * 128 + d[6] * 4 + d[7] \div 8) % 256,
                  (d[7] * 32 + d[8]) % 256 >>
    IN  IF dlen < 8 /\ dlen < Len(src) - off /\ ~padOk
        THEN [err |-> TRUE, end |-> FALSE, bytes |-> <<>>]
        ELSE [err |-> FALSE, end |-> dlen < 8, bytes |-> SubSeq(out, 1, b32QuantumBytes(dlen))]

\* decode from position off on: the quanta up to the one that ends the
\* input; after an error, the bytes of the quanta before it.
b32More(q, more) ==
    IF q.err THEN [ok |-> FALSE, bytes |-> <<>>]
    ELSE [ok |-> more.ok, bytes |-> q.bytes \o more.bytes]
RECURSIVE b32Decode(_, _)
b32Decode(src, off) ==
    IF off >= Len(src) THEN [ok |-> TRUE, bytes |-> <<>>]
    ELSE b32More(b32Quantum(src, off, b32Dlen(src, off)),
                 IF b32Dlen(src, off) < 8 THEN [ok |-> TRUE, bytes |-> <<>>]
                 ELSE b32Decode(src, off + 8))

\* base32.StdEncoding.WithPadding(base32.NoPadding).DecodeString(s): '\r' (13)
\* and '\n' (10) are dropped, then the rest is decoded without padding.
base32_DecodeString(s) == b32Decode(SelectSeq(s, LAMBDA c : c \notin {13, 10}), 0)

(***************************************************************************)
(* The package: constants, Token, NewToken.                                *)
(***************************************************************************)
digitsDefault == 6
digitsMax == 10
digitsMin == 6
periodDefault == 30
periodMax == 90
periodMin == 1

algorithmSHA1 == "SHA1"
algorithmSHA256 == "SHA256"
algorithmSHA512 == "SHA512"
algorithmDefault == algorithmSHA1

\* The nil *Token, and a *Token pointing at a Token value.
NilToken == <<>>
Ref(t) == <<t>>
Deref(p) == p[1]

\* return nil, fmt.Errorf(...)
Fail_Partial(e) ==
    [token |-> Ref([label |-> <<>>, secret |-> <<>>, issuer |-> <<>>,
                    algorithm |-> algorithmDefault, digits |-> digitsDefault,
                    period |-> periodDefault]),
     err |-> e]
Fail(e) == [token |-> NilToken, err |-> e]

\* u.Scheme != "otpauth" and u.Host != "totp", negated.
SchemeOK(u) == u.Scheme = Str("otpauth")
HostOK_AnyCase(u) == strings_ToLower(u.Host) = Str("totp")
HostOK(u) == u.Host = Str("totp")

\* The switch on rawAlgorithm: its three cases, and the algorithm each sets.
AlgorithmKnown(rawAlgorithm) ==
    rawAlgorithm \in {Str("SHA1"), Str("SHA256"), Str("SHA512")}
AlgorithmOf_Sha256AsSha1(rawAlgorithm) ==
    IF rawAlgorithm = Str("SHA1") THEN algorithmSHA1
    ELSE IF rawAlgorithm = Str("SHA256") THEN algorithmSHA1
    ELSE algorithmSHA512
AlgorithmOf(rawAlgorithm) ==
    IF rawAlgorithm = Str("SHA1") THEN algorithmSHA1
    ELSE IF rawAlgorithm = Str("SHA256") THEN algorithmSHA256
    ELSE algorithmSHA512

\* digits < digitsMin || digits > digitsMax, and the same for period.
DigitsOutOfRange_NoMax(digits) == IntLess(digits, IntOf(digitsMin))
DigitsOutOfRange(digits) ==
    IntLess(digits, IntOf(digitsMin)) \/ IntLess(IntOf(digitsMax), digits)
PeriodOutOfRange_MaxExcluded(period) ==
    IntLess(period, IntOf(periodMin)) \/ ~IntLess(period, IntOf(periodMax))
PeriodOutOfRange(period) ==
    IntLess(period, IntOf(periodMin)) \/ IntLess(IntOf(periodMax), period)

\* Initialize Token, and Process label.
InitToken(u) ==
    [label |-> strings_Trim(u.Path), secret |-> <<>>, issuer |-> <<>>,
     algorithm |-> algorithmDefault, digits |-> digitsDefault,
     period |-> periodDefault]

\* The Process blocks of NewToken.  Each takes the query q and r, the pair
\* (token, err) so far; an error returned by an earlier block passes through,
\* as NewToken has returned by then.
\* Process secret [REQUIRED]
ProcessSecret(q, r) ==
    LET rawSecret == Get(q, Str("secret"))
        dec == base32_DecodeString(strings_ToUpper(rawSecret))
    IN  IF r.err # "nil" THEN r
        ELSE IF ~Has(q, Str("secret")) THEN Fail("ErrSecretRequired")
        ELSE IF rawSecret = <<>> THEN Fail("ErrSecretEmpty")
        ELSE IF ~dec.ok THEN Fail("ErrSecretDecode")
        ELSE [r EXCEPT !.token = Ref([Deref(r.token) EXCEPT !.secret = dec.bytes])]
\* Process issuer [OPTIONAL]
ProcessIssuer(q, r) ==
    IF r.err # "nil" \/ ~Has(q, Str("issuer")) THEN r
    ELSE [r EXCEPT !.token = Ref([Deref(r.token) EXCEPT !.issuer = Get(q, Str("issuer"))])]
\* Process algorithm [OPTIONAL]
ProcessAlgorithm(q, r) ==
    LET rawAlgorithm == Get(q, Str("algorithm"))
    IN  IF r.err # "nil" \/ ~Has(q, Str("algorithm")) THEN r
        ELSE IF ~AlgorithmKnown(rawAlgorithm) THEN Fail("ErrAlgorithm")
        ELSE [r EXCEPT !.token =
                 Ref([Deref(r.token) EXCEPT !.algorithm = AlgorithmOf(rawAlgorithm)])]
\* Process digits [OPTIONAL]
ProcessDigits(q, r) ==
    LET digits == strconv_Atoi(Get(q, Str("digits")))
    IN  IF r.err # "nil" \/ ~Has(q, Str("digits")) THEN r
        ELSE IF ~digits.ok THEN Fail("ErrDigitsAtoi")
        ELSE IF DigitsOutOfRange(digits.n) THEN Fail("ErrDigitsRange")
        ELSE [r EXCEPT !.token = Ref([Deref(r.token) EXCEPT !.digits = IntVal(digits.n)])]
\* Process period [OPTIONAL]
ProcessPeriod(q, r) ==
    LET period == strconv_Atoi(Get(q, Str("period")))
    IN  IF r.err # "nil" \/ ~Has(q, Str("period")) THEN r
        ELSE IF ~period.ok THEN Fail("ErrPeriodAtoi")
        ELSE IF PeriodOutOfRange(period.n) THEN Fail("ErrPeriodRange")
        ELSE [r EXCEPT !.token = Ref([Deref(r.token) EXCEPT !.period = IntVal(period.n)])]

\* The Process blocks in their order.
ProcessQuery_DigitsFirst(q, r) ==
    ProcessPeriod(q, ProcessAlgorithm(q, ProcessIssuer(q, ProcessSecret(q, ProcessDigits(q, r)))))
ProcessQuery(q, r) ==
    ProcessPeriod(q, ProcessDigits(q, ProcessAlgorithm(q, ProcessIssuer(q, ProcessSecret(q, r)))))

\* NewToken after url.Parse has returned u.
NewTokenOfURL(u) ==
    IF u.err THEN Fail("ErrParseURI")
    ELSE IF ~SchemeOK(u) THEN Fail("ErrScheme")
    ELSE IF ~HostOK(u) THEN Fail("ErrHost")
    ELSE ProcessQuery(url_Query(u), [token |-> Ref(InitToken(u)), err |-> "nil"])

\* NewToken(uri): the pair (token, err) it returns; err "nil" is the nil error.
NewToken(uri) == NewTokenOfURL(url_Parse(uri))

\* The accessors.
Label(p) == Deref(p).label
Issuer(p) == Deref(p).issuer
Algorithm(p) == Deref(p).algorithm
Digits(p) == Deref(p).digits
Period(p) == Deref(p).period

(***************************************************************************)
(* crypto/hmac with crypto/sha1, sha256, sha512, as hotp uses them.  A     *)
(* word is a tuple of 16-bit limbs, most significant first: two limbs for  *)
(* SHA-1 and SHA-256, four for SHA-512.                                    *)
(***************************************************************************)
RECURSIVE XorBits(_, _, _)
XorBits(a, b, n) ==
    IF n = 0 THEN 0
    ELSE ((a + b) % 2) + 2 * XorBits(a \div 2, b \div 2, n - 1)

RECURSIVE AndBits(_, _, _)
AndBits(a, b, n) ==
    IF n = 0 THEN 0
    ELSE ((a % 2) * (b % 2)) + 2 * AndBits(a \div 2, b \div 2, n - 1)

\* Tables of the bytes a xor b and a and b, at [a + 1][b + 1].
XorTab == Tup([a \in 1..256 |-> Tup([b \in 1..256 |-> XorBits(a - 1, b - 1, 8)])])
AndTab == Tup([a \in 1..256 |-> Tup([b \in 1..256 |-> AndBits(a - 1, b - 1, 8)])])
Xor8(a, b) == XorTab[a + 1][b + 1]
And8(a, b) == AndTab[a + 1][b + 1]

Xor16(a, b) == Xor8(a \div 256, b \div 256) * 256 + Xor8(a % 256, b % 256)
And16(a, b) == And8(a \div 256, b \div 256) * 256 + And8(a % 256, b % 256)

WXor(a, b) == Tup([i \in 1..Len(a) |-> Xor16(a[i], b[i])])
WAnd(a, b) == Tup([i \in 1..Len(a) |-> And16(a[i], b[i])])
WNot(a) == Tup([i \in 1..Len(a) |-> 65535 - a[i]])

RECURSIVE AddLimbs(_, _, _, _)
AddLimbs(a, b, i, c) ==
    IF i = 0 THEN <<>>
    ELSE LET s == a[i] + b[i] + c
         IN  Append(AddLimbs(a, b, i - 1, s \div 65536), s % 65536)
WAdd(a, b) == AddLimbs(a, b, Len(a), 0)

RotR(a, k) ==
    LET n == Len(a)
        q == k \div 16
        r == k % 16
        l == Tup([i \in 1..n |-> a[((i - 1 - q + n) % n) + 1]])
    IN  Tup([i \in 1..n |->
            (l[i] \div 2^r) + (l[IF i = 1 THEN n ELSE i - 1] % 2^r) * 2^(16 - r)])
RotL(a, k) == RotR(a, 16 * Len(a) - k)
ShR(a, k) ==
    LET n == Len(a)
        q == k \div 16
        r == k % 16
        l == Tup([i \in 1..n |-> IF i - q >= 1 THEN a[i - q] ELSE 0])
    IN  Tup([i \in 1..n |->
            (l[i] \div 2^r) + ((IF i = 1 THEN 0 ELSE l[i - 1]) % 2^r) * 2^(16 - r)])

Ch(x, y, z) == WXor(WAnd(x, y), WAnd(WNot(x), z))
Maj(x, y, z) == WXor(WXor(WAnd(x, y), WAnd(x, z)), WAnd(y, z))
Parity(x, y, z) == WXor(WXor(x, y), z)

sha1_init ==
    << <<26437, 8961>>, <<61389, 43913>>, <<39098, 56574>>, <<4146, 21622>>, <<50130, 57840>> >>
sha1_K ==
    << <<23170, 31129>>, <<28377, 60321>>, <<36635, 48348>>, <<51810, 49622>> >>
sha256_init ==
    << <<27145, 58983>>, <<47975, 44677>>, <<15470, 62322>>, <<42319, 62778>>,
       <<20750, 21119>>, <<39685, 26764>>, <<8067, 55723>>, <<23520, 52505>> >>
sha256_K ==
    << <<17034, 12184>>, <<28983, 17553>>, <<46528, 64463>>, <<59829, 56229>>,
       <<14678, 49755>>, <<23025, 4593>>, <<37439, 33444>>, <<43804, 24277>>,
       <<55303, 43672>>, <<4739, 23297>>, <<9265, 34238>>, <<21772, 32195>>,
       <<29374, 23924>>, <<32990, 45566>>, <<39900, 1703>>, <<49563, 61812>>,
       <<58523, 27073>>, <<61374, 18310>>, <<4033, 40390>>, <<9228, 41420>>,
       <<11753, 11375>>, <<19060, 33962>>, <<23728, 43484>>, <<30457, 35034>>,
       <<38974, 20818>>, <<43057, 50797>>, <<45059, 10184>>, <<48985, 32711>>,
       <<50912, 3059>>, <<54695, 37191>>, <<1738, 25425>>, <<5161, 10599>>,
       <<10167, 2693>>, <<11803, 8504>>, <<19756, 28156>>, <<21304, 3347>>,
       <<25866, 29524>>, <<30314, 2747>>, <<33218, 51502>>, <<37490, 11397>>,
       <<41663, 59553>>, <<43034, 26187>>, <<49739, 35696>>, <<51052, 20899>>,
       <<53650, 59417>>, <<54937, 1572>>, <<62478, 13701>>, <<4202, 41072>>,
       <<6564, 49430>>, <<7735, 27656>>, <<10056, 30540>>, <<13488, 48309>>,
       <<14620, 3251>>, <<20184, 43594>>, <<23452, 51791>>, <<26670, 28659>>,
       <<29839, 33518>>, <<30885, 25455>>, <<33992, 30740>>, <<36039, 520>>,
       <<37054, 65530>>, <<42064, 27883>>, <<48889, 41975>>, <<50801, 30962>> >>
sha512_init ==
    << <<27145, 58983, 62396, 51464>>, <<47975, 44677, 33994, 42811>>,
       <<15470, 62322, 65172, 63531>>, <<42319, 62778, 24349, 14065>>,
       <<20750, 21119, 44518, 33489>>, <<39685, 26764, 11070, 27679>>,
       <<8067, 55723, 64321, 48491>>, <<23520, 52505, 4990, 8569>> >>
sha512_K ==
    << <<17034, 12184, 55080, 44578>>, <<28983, 17553, 9199, 26061>>,
       <<46528, 64463, 60493, 15151>>, <<59829, 56229, 33161, 56252>>,
       <<14678, 49755, 62280, 46392>>, <<23025, 4593, 46597, 53273>>,
       <<37439, 33444, 44825, 20379>>, <<43804, 24277, 55917, 33048>>,
       <<55303, 43672, 41731, 578>>, <<4739, 23297, 17776, 28606>>,
       <<9265, 34238, 20196, 45708>>, <<21772, 32195, 54783, 46306>>,
       <<29374, 23924, 62075, 35183>>, <<32990, 45566, 15126, 38577>>,
       <<39900, 1703, 9671, 4661>>, <<49563, 61812, 53097, 9876>>,
       <<58523, 27073, 40689, 19154>>, <<61374, 18310, 14415, 9699>>,
       <<4033, 40390, 35724, 54709>>, <<9228, 41420, 30636, 40037>>,
       <<11753, 11375, 22827, 629>>, <<19060, 33962, 28326, 58499>>,
       <<23728, 43484, 48449, 64468>>, <<30457, 35034, 33553, 21429>>,
       <<38974, 20818, 61030, 57259>>, <<43057, 50797, 11700, 12816>>,
       <<45059, 10184, 39163, 8511>>, <<48985, 32711, 48879, 3812>>,
       <<50912, 3059, 15784, 36802>>, <<54695, 37191, 37642, 42789>>,
       <<1738, 25425, 57347, 33391>>, <<5161, 10599, 2574, 28272>>,
       <<10167, 2693, 18130, 12284>>, <<11803, 8504, 23590, 51494>>,
       <<19756, 28156, 23236, 10989>>, <<21304, 3347, 40341, 46047>>,
       <<25866, 29524, 35759, 25566>>, <<30314, 2747, 15479, 45736>>,
       <<33218, 51502, 18413, 44774>>, <<37490, 11397, 5250, 13627>>,
       <<41663, 59553, 19697, 868>>, <<43034, 26187, 48194, 12289>>,
       <<49739, 35696, 53496, 38801>>, <<51052, 20899, 1620, 48688>>,
       <<53650, 59417, 55023, 21016>>, <<54937, 1572, 21861, 43280>>,
       <<62478, 13701, 22385, 8234>>, <<4202, 41072, 12987, 53688>>,
       <<6564, 49430, 47314, 53448>>, <<7735, 27656, 20801, 43859>>,
       <<10056, 30540, 57230, 60313>>, <<13488, 48309, 57755, 18600>>,
       <<14620, 3251, 50633, 23139>>, <<20184, 43594, 58177, 35531>>,
       <<23452, 51791, 30563, 58227>>, <<26670, 28659, 54962, 47267>>,
       <<29839, 33518, 24047, 45820>>, <<30885, 25455, 17175, 12128>>,
       <<33992, 30740, 41456, 43890>>, <<36039, 520, 6756, 14828>>,
       <<37054, 65530, 9059, 7720>>, <<42064, 27883, 56962, 48617>>,
       <<48889, 41975, 45766, 30997>>, <<50801, 30962, 58226, 21291>>,
       <<51751, 16078, 59942, 24988>>, <<53638, 47303, 8640, 49671>>,
       <<60122, 32214, 52704, 60190>>, <<62845, 20351, 61038, 53624>>,
       <<1776, 26538, 29207, 28602>>, <<2659, 32197, 41672, 39078>>,
       <<4415, 38916, 48889, 3502>>, <<7025, 2869, 4892, 18203>>,
       <<10459, 30709, 8964, 32132>>, <<13002, 43899, 16583, 9363>>,
       <<15518, 48650, 5577, 48828>>, <<17181, 26564, 39952, 3404>>,
       <<19653, 54462, 52030, 17078>>, <<22911, 10652, 64613, 32298>>,
       <<24523, 28587, 15062, 64236>>, <<27716, 6540, 19015, 22551>> >>

\* Padding (FIPS 180-4 5.1): 0x80, zeros, then the bit length, to a multiple of
\* the block size bs; the length field is bs/8 bytes.
LenByte(bits, j) == IF j > 3 THEN 0 ELSE (bits \div 256^j) % 256
Pad(msg, bs) ==
    LET lf == bs \div 8
        n == Len(msg)
        total == ((n + 1 + lf + bs - 1) \div bs) * bs
    IN  Tup([i \in 1..total |->
            IF i <= n THEN msg[i]
            ELSE IF i = n + 1 THEN 128
            ELSE IF i <= total - lf THEN 0
            ELSE LenByte(8 * n, total - i)])
\* words of block number blk (0-based) of padded message p, wb bytes per word
BlockWords(p, blk, bs, wb) ==
    Tup([t \in 1..16 |->
        Tup([l \in 1..(wb \div 2) |->
            p[blk * bs + (t - 1) * wb + 2 * (l - 1) + 1] * 256
          + p[blk * bs + (t - 1) * wb + 2 * (l - 1) + 2]])])
WordsToBytes(ws) ==
    LET n == Len(ws[1])
    IN Tup([i \in 1..(Len(ws) * n * 2) |->
          LET w == ws[((i - 1) \div (2 * n)) + 1]
              r == (i - 1) % (2 * n)
              limb == w[(r \div 2) + 1]
          IN IF r % 2 = 0 THEN limb \div 256 ELSE limb % 256])

\* The hash functions test the length of a value before they use it: TLC
\* evaluates a definition where it is first needed, inside the expression that
\* needs it, and the test keeps the evaluations from nesting.
\* crypto/sha1
\* The message schedule: the words lo..hi appended to w, one after the other
\* (the range is halved so that the evaluation does not nest once per word).
RECURSIVE sha1_sched(_, _, _)
sha1_sched(w, lo, hi) ==
    IF lo > hi \/ Len(w) < 16 THEN w
    ELSE IF lo = hi
    THEN Append(w, RotL(WXor(WXor(WXor(w[lo-3], w[lo-8]), w[lo-14]), w[lo-16]), 1))
    ELSE LET half == sha1_sched(w, lo, (lo + hi) \div 2)
         IN  sha1_sched(half, ((lo + hi) \div 2) + 1, hi)
sha1_f(t, b, c, d) ==
    IF t < 20 THEN Ch(b, c, d)
    ELSE IF t < 40 THEN Parity(b, c, d)
    ELSE IF t < 60 THEN Maj(b, c, d)
    ELSE Parity(b, c, d)
\* The rounds lo..hi-1, one after the other, the range halved as above.
RECURSIVE sha1_rounds(_, _, _, _)
sha1_rounds(s, w, lo, hi) ==
    IF lo >= hi \/ Len(s) # 5 THEN s
    ELSE IF hi - lo = 1
    THEN LET tmp == WAdd(WAdd(WAdd(WAdd(RotL(s[1], 5), sha1_f(lo, s[2], s[3], s[4])), s[5]),
                              w[lo + 1]), sha1_K[(lo \div 20) + 1])
         IN  <<tmp, s[1], RotL(s[2], 30), s[3], s[4]>>
    ELSE LET half == sha1_rounds(s, w, lo, (lo + hi) \div 2)
         IN  sha1_rounds(half, w, (lo + hi) \div 2, hi)
sha1_block(h, blockw) ==
    LET w == sha1_sched(blockw, 17, 80)
        s == sha1_rounds(h, w, 0, 80)
    IN  IF Len(w) = 0 \/ Len(s) = 0 THEN h
        ELSE Tup([i \in 1..5 |-> WAdd(h[i], s[i])])
RECURSIVE sha1_blocks(_, _, _)
sha1_blocks(h, p, blk) ==
    IF Len(h) = 0 \/ blk * 64 >= Len(p) THEN h
    ELSE sha1_blocks(sha1_block(h, BlockWords(p, blk, 64, 4)), p, blk + 1)
sha1_Sum(msg) == WordsToBytes(sha1_blocks(sha1_init, Pad(msg, 64), 0))

\* crypto/sha256 and crypto/sha512: one structure, two word widths.
Sig(x, r) == WXor(WXor(RotR(x, r[1]), RotR(x, r[2])), RotR(x, r[3]))
sig(x, r) == WXor(WXor(RotR(x, r[1]), RotR(x, r[2])), ShR(x, r[3]))
RECURSIVE sha2_sched(_, _, _, _, _)
sha2_sched(w, lo, hi, r0, r1) ==
    IF lo > hi \/ Len(w) < 16 THEN w
    ELSE IF lo = hi
    THEN Append(w, WAdd(WAdd(WAdd(sig(w[lo-2], r1), w[lo-7]), sig(w[lo-15], r0)), w[lo-16]))
    ELSE LET half == sha2_sched(w, lo, (lo + hi) \div 2, r0, r1)
         IN  sha2_sched(half, ((lo + hi) \div 2) + 1, hi, r0, r1)
RECURSIVE sha2_rounds(_, _, _, _, _, _, _)
sha2_rounds(s, w, K, lo, hi, R0, R1) ==
    IF lo >= hi \/ Len(s) # 8 THEN s
    ELSE IF hi - lo = 1
    THEN LET t1 == WAdd(WAdd(WAdd(WAdd(s[8], Sig(s[5], R1)), Ch(s[5], s[6], s[7])), K[lo + 1]), w[lo + 1])
             t2 == WAdd(Sig(s[1], R0), Maj(s[1], s[2], s[3]))
         IN  <<WAdd(t1, t2), s[1], s[2], s[3], WAdd(s[4], t1), s[5], s[6], s[7]>>
    ELSE LET half == sha2_rounds(s, w, K, lo, (lo + hi) \div 2, R0, R1)
         IN  sha2_rounds(half, w, K, (lo + hi) \div 2, hi, R0, R1)
sha256_block(h, blockw) ==
    LET w == sha2_sched(blockw, 17, 64, <<7, 18, 3>>, <<17, 19, 10>>)
        s == sha2_rounds(h, w, sha256_K, 0, 64, <<2, 13, 22>>, <<6, 11, 25>>)
    IN  IF Len(w) = 0 \/ Len(s) = 0 THEN h
        ELSE Tup([i \in 1..8 |-> WAdd(h[i], s[i])])
sha512_block(h, blockw) ==
    LET w == sha2_sched(blockw, 17, 80, <<1, 8, 7>>, <<19, 61, 6>>)
        s == sha2_rounds(h, w, sha512_K, 0, 80, <<28, 34, 39>>, <<14, 18, 41>>)
    IN  IF Len(w) = 0 \/ Len(s) = 0 THEN h
        ELSE Tup([i \in 1..8 |-> WAdd(h[i], s[i])])
RECURSIVE sha256_blocks(_, _, _)
sha256_blocks(h, p, blk) ==
    IF Len(h) = 0 \/ blk * 64 >= Len(p) THEN h
    ELSE sha256_blocks(sha256_block(h, BlockWords(p, blk, 64, 4)), p, blk + 1)
RECURSIVE sha512_blocks(_, _, _)
sha512_blocks(h, p, blk) ==
    IF Len(h) = 0 \/ blk * 128 >= Len(p) THEN h
    ELSE sha512_blocks(sha512_block(h, BlockWords(p, blk, 128, 8)), p, blk + 1)
sha256_Sum(msg) == WordsToBytes(sha256_blocks(sha256_init, Pad(msg, 64), 0))
sha512_Sum(msg) == WordsToBytes(sha512_blocks(sha512_init, Pad(msg, 128), 0))

\* crypto/hmac: H((K xor opad) || H((K xor ipad) || msg)).
BlockSize(alg) == IF alg = "SHA512" THEN 128 ELSE 64
Sum(alg, msg) ==
    IF alg = "SHA1" THEN sha1_Sum(msg)
    ELSE IF alg = "SHA256" THEN sha256_Sum(msg)
    ELSE sha512_Sum(msg)
hmac_Sum(alg, key, msg) ==
    LET bs == BlockSize(alg)
        k0 == IF Len(key) > bs THEN Sum(alg, key) ELSE key
        kp == Tup([i \in 1..bs |-> IF i <= Len(k0) THEN k0[i] ELSE 0])
        ipad == Tup([i \in 1..bs |-> Xor8(kp[i], 54)])
        opad == Tup([i \in 1..bs |-> Xor8(kp[i], 92)])
        inner == Sum(alg, ipad \o msg)
    IN  IF Len(inner) = 0 THEN inner ELSE Sum(alg, opad \o inner)


(***************************************************************************)
(* Generate and hotp.  Unix seconds are integers t with -2^31 < t < 2^31;  *)
(* the counter is an int64 of which the bytes are taken in two's           *)
(* complement.                                                             *)
(***************************************************************************)
\* Go's integer division, which truncates toward zero.
GoDiv(a, b) == IF a >= 0 THEN a \div b ELSE 0 - ((0 - a) \div b)

\* Byte k (0 = least significant) of the 64-bit two's complement of u.
RECURSIVE Byte64(_, _)
Byte64(u, k) ==
    IF u >= 0 THEN (IF k >= 4 THEN 0 ELSE (u \div 256^k) % 256)
    ELSE 255 - Byte64((0 - u) - 1, k)

\* The moving factor of Generate and its 8-byte message.
Counter(p, m) == GoDiv(m, Period(p))
CounterMsg_LittleEndian(u) ==
    << Byte64(u, 0), Byte64(u, 1), Byte64(u, 2), Byte64(u, 3),
       Byte64(u, 4), Byte64(u, 5), Byte64(u, 6), Byte64(u, 7) % 128 >>
CounterMsg_NoMask(u) ==
    << Byte64(u, 7), Byte64(u, 6), Byte64(u, 5), Byte64(u, 4),
       Byte64(u, 3), Byte64(u, 2), Byte64(u, 1), Byte64(u, 0) >>
CounterMsg(u) ==
    << Byte64(u, 7) % 128, Byte64(u, 6), Byte64(u, 5), Byte64(u, 4),
       Byte64(u, 3), Byte64(u, 2), Byte64(u, 1), Byte64(u, 0) >>

\* n % int(math.Pow10(digits)) for n >= 0, digit by digit.
ModPow10_NoMod(n, digits) == n
RECURSIVE ModPow10(_, _)
ModPow10(n, digits) ==
    IF digits <= 0 \/ n = 0 THEN 0
    ELSE (n % 10) + 10 * ModPow10(n \div 10, digits - 1)

\* The decimal digits, as characters of a TLA+ string.
DecDigits == Chars("0123456789")
RECURSIVE Itoa(_)
Itoa(n) == IF n < 10 THEN DecDigits[n + 1] ELSE Itoa(n \div 10) \o DecDigits[(n % 10) + 1]

\* fmt.Sprintf("%0<digits>d", n) for n >= 0: zeros on the left up to the width.
RECURSIVE PadZero(_, _)
PadZero(s, width) == IF Len(s) >= width THEN s ELSE PadZero("0" \o s, width)
Sprintf0d_NoPad(digits, n) == Itoa(n)
Sprintf0d(digits, n) == PadZero(Itoa(n), digits)

\* Dynamic truncation of hotp: the offset, the 31-bit value, the reduction.
dt_offset(mac) == mac[Len(mac)] % 16
dt_value(mac) ==
    LET i == dt_offset(mac)
    IN  (mac[i + 1] % 128) * 2^24 + mac[i + 2] * 2^16 + mac[i + 3] * 2^8 + mac[i + 4]
truncate(mac, digits) == Sprintf0d(digits, ModPow10(dt_value(mac), digits))

hotp(msg, secret, algorithm, digits) == truncate(hmac_Sum(algorithm, secret, msg), digits)

Generate(p, m) ==
    hotp(CounterMsg(Counter(p, m)), Deref(p).secret, Deref(p).algorithm, Deref(p).digits)

(***************************************************************************)
(* The state machine.  A token is constructed by NewToken and then shared  *)
(* by the callers, each of which calls the accessors and Generate on it.   *)
(* Generate runs in three steps, so that callers interleave: the counter   *)
(* and its message (which reads period), the HMAC (which reads secret and  *)
(* algorithm), and the truncation (which reads digits).                    *)
(***************************************************************************)
VARIABLES
    uri,        \* the argument of the last NewToken call
    token,      \* the *Token it returned
    err,        \* the error it returned
    pc,         \* pc[0]: "new" before NewToken has returned, "built" after;
                \* pc[c]: where caller c is, "idle", "hmac" or "dt"
    at,         \* at[c]: the Unix time caller c passed to Generate
    msg,        \* msg[c]: the 8-byte message of caller c's Generate
    mac,        \* mac[c]: the MAC of caller c's hotp
    ret         \* ret[c]: what caller c's last completed call returned

vars == <<uri, token, err, pc, at, msg, mac, ret>>

\* How many callers share the token.
NCallers == 2
Callers == 1..NCallers

NoRet == [op |-> "none", at |-> 0, val |-> ""]

\* Before NewToken is called: position "new" of the constructing flow, pc[0].
Init ==
    /\ uri = <<>>
    /\ token = NilToken
    /\ err = "nil"
    /\ pc = [c \in {0} \cup Callers |-> IF c = 0 THEN "new" ELSE "idle"]
    /\ at = [c \in Callers |-> 0]
    /\ msg = [c \in Callers |-> <<>>]
    /\ mac = [c \in Callers |-> <<>>]
    /\ ret = [c \in Callers |-> NoRet]

\* The call token, err := NewToken(u).
CallNewToken(u) ==
    /\ pc[0] = "new"
    /\ pc' = [pc EXCEPT ![0] = "built"]
    /\ uri' = u
    /\ \E r \in {NewToken(u)} :
          /\ token' = r.token
          /\ err' = r.err
    /\ UNCHANGED <<at, msg, mac, ret>>

\* Caller c calls an accessor, which returns val. The locals of the caller's
\* previous Generate are gone.
Returns(c, op, val) ==
    /\ pc[c] = "idle"
    /\ token # NilToken
    /\ ret' = [ret EXCEPT ![c] = [op |-> op, at |-> 0, val |-> val]]
    /\ at' = [at EXCEPT ![c] = 0]
    /\ msg' = [msg EXCEPT ![c] = <<>>]
    /\ mac' = [mac EXCEPT ![c] = <<>>]
    /\ UNCHANGED <<uri, token, err, pc>>

CallLabel(c) == Returns(c, "Label", Label(token))
CallIssuer(c) == Returns(c, "Issuer", Issuer(token))
CallAlgorithm(c) == Returns(c, "Algorithm", Algorithm(token))
CallDigits(c) == Returns(c, "Digits", Digits(token))
CallPeriod(c) == Returns(c, "Period", Period(token))

\* The message buffer of caller c: a slice Generate makes for itself.
MsgOf_Shared(c) == msg[1]
MsgOf(c) == msg[c]

\* Generate(m), first step: the counter and its message.
GenerateBegin(c, m) ==
    /\ pc[c] = "idle"
    /\ token # NilToken
    /\ pc' = [pc EXCEPT ![c] = "hmac"]
    /\ at' = [at EXCEPT ![c] = m]
    /\ msg' = [msg EXCEPT ![c] = CounterMsg(Counter(token, m))]
    /\ mac' = [mac EXCEPT ![c] = <<>>]
    /\ ret' = [ret EXCEPT ![c] = NoRet]
    /\ UNCHANGED <<uri, token, err>>

\* hotp, first step: the HMAC of the message under the secret.
GenerateHmac(c) ==
    /\ pc[c] = "hmac"
    /\ pc' = [pc EXCEPT ![c] = "dt"]
    /\ mac' = [mac EXCEPT ![c] =
                  hmac_Sum(Deref(token).algorithm, Deref(token).secret, MsgOf(c))]
    /\ UNCHANGED <<uri, token, err, at, msg, ret>>

\* hotp, second step: dynamic truncation and formatting; Generate returns.
GenerateTruncate(c) ==
    /\ pc[c] = "dt"
    /\ pc' = [pc EXCEPT ![c] = "idle"]
    /\ ret' = [ret EXCEPT ![c] =
                  [op |-> "Generate", at |-> at[c],
                   val |-> truncate(mac[c], Deref(token).digits)]]
    /\ UNCHANGED <<uri, token, err, at, msg, mac>>

(***************************************************************************)
(* Inputs of the parser specification: Key URIs put together from parts.   *)
(***************************************************************************)
\* How often one query key is repeated at most.
MaxRepeat == 2

RECURSIVE JoinWith(_, _)
JoinWith(ss, sep) ==
    IF Len(ss) = 0 THEN ""
    ELSE IF Len(ss) = 1 THEN ss[1]
    ELSE ss[1] \o sep \o JoinWith(Tail(ss), sep)

MakeURI(scheme, host, path, params) ==
    scheme \o "://" \o host \o path
        \o (IF Len(params) = 0 THEN "" ELSE "?" \o JoinWith(params, "&"))

\* The sequences over S of length lo to hi.
SeqsOf(S, lo, hi) == UNION {[1..n -> S] : n \in lo..hi}
\* key=v1&key=v2..., one parameter for each value.
Repeat(key, vs) == [i \in 1..Len(vs) |-> key \o "=" \o vs[i]]

RfcSecret32 == "GEZDGNBVGY3TQOJQGEZDGNBVGY3TQOJQ"
SecretValues ==
    {"ME", "mfrgg", RfcSecret32, "", "%0A", "M%0D%0AE", "0101", "ME======", "%C5%BFE", "M%C3%A9"}
IssuerValues == {"", "acme", "a%20b", "%60", "%2560", "%01%7F%E9"}
AlgorithmValues == {"SHA1", "SHA256", "SHA512", "", "MD5", "sha1", "SHA-1"}
DigitsValues ==
    {"5", "6", "8", "10", "11", "", "foo", "%2B7", "-6", "007", "6.0", "-4294967290"}
PeriodValues ==
    {"0", "1", "30", "90", "91", "", "foo", "%2B45", "-1", "1e1", "4294967326",
     "9223372036854775808"}
Schemes == {"otpauth", "OTPAUTH", "OtpAuth", "http", "otpauths"}
Hosts == {"totp", "TOTP", "hotp", "totp:80", ""}
Paths == {"", "/", "/alice", "//acme:alice//", "/a/b"}

\* One key varied, with up to MaxRepeat occurrences, the secret being valid.
OneKeyURIs(key, Values) ==
    {MakeURI("otpauth", "totp", "/alice", <<"secret=ME">> \o Repeat(key, vs)) :
        vs \in SeqsOf(Values, 0, MaxRepeat)}
\* The secret varied, alone and before an invalid later parameter.
SecretURIs ==
    {MakeURI("otpauth", "totp", "/alice", Repeat("secret", vs) \o tl) :
        vs \in SeqsOf(SecretValues, 0, MaxRepeat),
        tl \in {<<>>, <<"digits=99">>, <<"algorithm=MD5", "period=0">>}}
\* Every combination of the optional parameters, each absent, valid or invalid,
\* with an unknown key among them, in two orders.
Opt(key, Values) == {<<>>} \cup {<<key \o "=" \o v>> : v \in Values}
ComboURIs ==
    {MakeURI("otpauth", "totp", "/acme:alice", IF rev THEN d \o a \o i \o p \o x \o s
                                               ELSE s \o x \o i \o a \o d \o p) :
        s \in {<<"secret=ME">>, <<"secret=0101">>},
        x \in {<<>>, <<"image=x", "digits">>},
        i \in Opt("issuer", {"acme"}),
        a \in Opt("algorithm", {"SHA512", "MD5"}),
        d \in Opt("digits", {"10", "11"}),
        p \in Opt("period", {"1", "0"}),
        rev \in BOOLEAN}
\* Scheme, host and path varied, with a valid and with an invalid query.
PrefixURIs ==
    {MakeURI(sc, h, pa, ps) :
        sc \in Schemes, h \in Hosts, pa \in Paths,
        ps \in {<<"secret=ME">>, <<>>, <<"secret=ME", "digits=99">>}}
\* URIs that are not of the form scheme://host/path?query.
OddURIs ==
    {"", "*", ":", "otpauth:", "otpauth:totp/alice?secret=ME", "//totp/alice?secret=ME",
     "otpauth://totp/alice?secret=ME#frag", "otpauth://totp/alice?secret=\t",
     "otpauth://totp/al%zzice?secret=ME", "otpauth://bob@totp/alice?secret=ME",
     "otpauth://totp/alice?secret=ME;digits=7", "otpauth://totp/alice?secret=%zz",
     "otpauth://totp/alice?", "otpauth://totp/alice?digits=8&secret=ME&secret=0101",
     "otpauth://to tp/alice?secret=ME", "1otpauth://totp/alice?secret=ME",
     "otpauth://bob:pw@totp/alice?secret=ME", "otpauth://a%zz@totp/alice?secret=ME",
     "otpauth://bob:%4@totp/alice?secret=ME", "otpauth://%74otp/alice?secret=ME",
     "otpauth://[totp]/alice?secret=ME", "otpauth://[a b]/alice?secret=ME",
     "otpauth://[a%41]/alice?secret=ME", "otpauth://[::1%25en0]:80/alice?secret=ME",
     "otpauth://totp/alice?secret=M%C4%B1", "otpauth://totp/alice?secret=ME%FF%FF%FF%FF%FF%FF"}

\* URIs with bytes that no TLA+ string holds: a control byte in the path (0x01)
\* and in the query (0x7f), one after the '#', a grave accent (0x60) and a
\* byte above 0x7f in the path.
ByteURIs ==
    {Str("otpauth://totp/al") \o <<1>> \o Str("ice?secret=ME"),
     Str("otpauth://totp/alice?secret=ME&issuer=a") \o <<127>>,
     Str("otpauth://totp/alice?secret=ME#") \o <<1>>,
     Str("otpauth://totp/al") \o <<96>> \o Str("ice?secret=ME"),
     Str("otpauth://totp/al") \o <<233>> \o Str("ice?secret=ME"),
     Str("otpauth://totp") \o <<233>> \o Str("/alice?secret=ME")}

ParseURIs ==
    {Str(t) : t \in SecretURIs \cup ComboURIs \cup PrefixURIs \cup OddURIs
                       \cup OneKeyURIs("issuer", IssuerValues)
                       \cup OneKeyURIs("algorithm", AlgorithmValues)
                       \cup OneKeyURIs("digits", DigitsValues)
                       \cup OneKeyURIs("period", PeriodValues)}
        \cup ByteURIs

\* The parser specification: NewToken on every input, and the accessors.
NextParse ==
    \/ \E u \in ParseURIs : CallNewToken(u)
    \/ CallLabel(1)
    \/ CallIssuer(1)
    \/ CallAlgorithm(1)
    \/ CallDigits(1)
    \/ CallPeriod(1)
SpecParse == Init /\ [][NextParse]_vars

(***************************************************************************)
(* The generator specification: tokens with the secret of RFC 6238         *)
(* ("12345678901234567890"), Generate at the times of its test vectors.    *)
(***************************************************************************)
RfcBase == "otpauth://totp/exampleservice:exampleuser?secret=" \o RfcSecret32
GenURIs ==
    {Str(RfcBase \o a \o d) :
        a \in {"", "&algorithm=SHA1", "&algorithm=SHA256", "&algorithm=SHA512",
               "&algorithm=MD5", "&algorithm=", "&algorithm=sha1"},
        d \in {"&digits=8", "&digits=6"}}
GenTimes == {59, 1111111109, 1111111111, 1234567890, 2000000000}

NextGen ==
    \/ \E u \in GenURIs : CallNewToken(u)
    \/ CallLabel(1)
    \/ CallIssuer(1)
    \/ CallAlgorithm(1)
    \/ CallDigits(1)
    \/ CallPeriod(1)
    \/ \E m \in GenTimes : GenerateBegin(1, m)
    \/ GenerateHmac(1)
    \/ GenerateTruncate(1)
SpecGen == Init /\ [][NextGen]_vars

(***************************************************************************)
(* The concurrency specification: every caller calls the accessors and     *)
(* Generate on the one token, their steps interleaved.                     *)
(***************************************************************************)
ConcURI == Str(RfcBase \o "&digits=8")
ConcTimes == <<59, 1111111109>>

NextConc ==
    \/ CallNewToken(ConcURI)
    \/ \E c \in Callers :
          \/ CallLabel(c)
          \/ CallIssuer(c)
          \/ CallAlgorithm(c)
          \/ CallDigits(c)
          \/ CallPeriod(c)
          \/ \E i \in 1..Len(ConcTimes) : GenerateBegin(c, ConcTimes[i])
          \/ GenerateHmac(c)
          \/ GenerateTruncate(c)
SpecConc == Init /\ [][NextConc]_vars

(***************************************************************************)
(* The truncation specification: hotp's dynamic truncation applied to MACs *)
(* of the three lengths whose bytes are drawn from boundary values, for    *)
(* every number of digits NewToken accepts.                                *)
(***************************************************************************)
HotpURIs ==
    {Str("otpauth://totp/alice?secret=ME&algorithm=" \o a \o "&digits=" \o d) :
        a \in {"SHA1", "SHA256", "SHA512"}, d \in {"6", "7", "8", "9", "10"}}
ByteSamples == {0, 1, 127, 128, 255}
LastSamples == 0..15 \cup {240, 255}
MacLen(algorithm) ==
    IF algorithm = "SHA1" THEN 20 ELSE IF algorithm = "SHA256" THEN 32 ELSE 64
\* A MAC of n bytes: bs repeated, and the last byte, which holds the offset.
MacSample(n, bs, last) == Tup([j \in 1..n |-> IF j = n THEN last ELSE bs[((j - 1) % 4) + 1]])

\* What NewToken returns for each of HotpURIs.
HotpBuilt == {[uri |-> u, res |-> NewToken(u)] : u \in HotpURIs}

\* Caller 1 inside hotp at time 0, the MAC computed, before the truncation.
InitHotp ==
    \E b \in HotpBuilt : \E bs \in [1..4 -> ByteSamples] : \E last \in LastSamples :
        /\ uri = b.uri
        /\ token = b.res.token
        /\ err = b.res.err
        /\ pc = [c \in {0} \cup Callers |->
                    IF c = 0 THEN "built" ELSE IF c = 1 THEN "dt" ELSE "idle"]
        /\ at = [c \in Callers |-> 0]
        /\ msg = [c \in Callers |-> IF c = 1 THEN CounterMsg(0) ELSE <<>>]
        /\ mac = [c \in Callers |->
                    IF c = 1 THEN MacSample(MacLen(Algorithm(b.res.token)), bs, last)
                    ELSE <<>>]
        /\ ret = [c \in Callers |-> NoRet]
NextHotp == GenerateTruncate(1)
SpecHotp == InitHotp /\ [][NextHotp]_vars

(***************************************************************************)
(* The counter specification: Generate on tokens of several periods, at    *)
(* times on both sides of the window boundaries and of the epoch.          *)
(***************************************************************************)
CounterURIs ==
    {Str("otpauth://totp/alice?secret=ME&period=" \o p) : p \in {"1", "7", "30", "90"}}
CounterTimes ==
    {-2147483647, -91, -90, -89, -31, -30, -29, -8, -7, -1,
     0, 1, 6, 7, 29, 30, 59, 89, 90, 2147483647}

NextCounter ==
    \/ \E u \in CounterURIs : CallNewToken(u)
    \/ \E m \in CounterTimes : GenerateBegin(1, m)
    \/ GenerateHmac(1)
    \/ GenerateTruncate(1)
SpecCounter == Init /\ [][NextCounter]_vars

(***************************************************************************)
(* Properties of the parser.                                               *)
(***************************************************************************)
Built == pc[0] = "built"
Accepted == Built /\ err = "nil"
\* The query parameters of the URI NewToken was called with.
Params == url_Query(url_Parse(uri))

\* C1: whenever NewToken returns a nil error, the token's digits is in [6, 10]
\* and its period is in [1, 90], repeated and unknown keys included.
C1_DigitsPeriodInRange ==
    Accepted =>
        /\ token # NilToken
        /\ Digits(token) \in 6..10
        /\ Period(token) \in 1..90
\* An accepted URI that repeats digits, the second value being out of range.
C1_Witness ==
    /\ Accepted
    /\ uri = Str("otpauth://totp/alice?secret=ME&digits=10&digits=11")
    /\ Digits(token) = 10
    /\ Period(token) = 30

\* C2: whenever NewToken returns a nil error, the decoded secret has at least
\* one byte.
C2_SecretNonEmpty ==
    Accepted => Len(Deref(token).secret) >= 1

\* C5: NewToken returns either a token and a nil error or a nil token and an
\* error, never both and never neither; without a secret parameter it returns
\* (nil, error).
C5_AllOrNothing ==
    Built =>
        /\ (token = NilToken) <=> (err # "nil")
        /\ ~Has(Params, Str("secret")) => (token = NilToken /\ err # "nil")
C5_Witness ==
    /\ Built
    /\ uri = Str("otpauth://totp/alice")
    /\ token = NilToken
    /\ err = "ErrSecretRequired"

\* l is p without its leading and trailing '/' characters.
IsSlashTrimOf(l, p) ==
    /\ \E i \in 0..Len(p) : \E j \in 0..(Len(p) - i) :
          /\ SubSeq(p, i + 1, Len(p) - j) = l
          /\ \A k \in 1..i : p[k] = 47
          /\ \A k \in (Len(p) - j + 1)..Len(p) : p[k] = 47
    /\ l = <<>> \/ (l[1] # 47 /\ l[Len(l)] # 47)

\* C6: in an accepted URI each absent optional parameter takes its default
\* (issuer "", algorithm SHA1, digits 6, period 30) whatever else is present,
\* the label is the path without leading and trailing '/', and each present
\* parameter is stored with its parsed value.
C6_DefaultsAndLabel ==
    Accepted =>
        /\ IsSlashTrimOf(Label(token), url_Parse(uri).Path)
        /\ Issuer(token) = (IF Has(Params, Str("issuer")) THEN Get(Params, Str("issuer")) ELSE <<>>)
        /\ Str(Algorithm(token)) =
              (IF Has(Params, Str("algorithm")) THEN Get(Params, Str("algorithm"))
               ELSE Str("SHA1"))
        /\ Digits(token) =
              (IF Has(Params, Str("digits")) THEN IntVal(strconv_Atoi(Get(Params, Str("digits"))).n)
               ELSE 6)
        /\ Period(token) =
              (IF Has(Params, Str("period")) THEN IntVal(strconv_Atoi(Get(Params, Str("period"))).n)
               ELSE 30)
\* Algorithm and period given, issuer and digits absent.
C6_Witness ==
    /\ Accepted
    /\ uri = Str("otpauth://totp/acme:alice?secret=ME&algorithm=SHA512&period=1")
    /\ Label(token) = Str("acme:alice")
    /\ Issuer(token) = <<>>
    /\ Algorithm(token) = "SHA512"
    /\ Digits(token) = 6
    /\ Period(token) = 1

\* The scheme as it is written in the URI, before url.Parse lower-cases it.
SchemeAsWritten == getScheme(uri).scheme

\* C7 as stated: every URI whose scheme is not exactly "otpauth", compared
\* case-sensitively, or whose host is not exactly "totp", is rejected.
C7_SchemeCaseSensitive ==
    (Built /\ (SchemeAsWritten # Str("otpauth") \/ url_Parse(uri).Host # Str("totp"))) =>
        err # "nil"
\* C7 amended: every URI whose scheme is not "otpauth" in any letter case, or
\* whose host is not exactly "totp", is rejected.
C7_SchemeAnyCaseHostExact ==
    (Built /\ (strings_ToLower(SchemeAsWritten) # Str("otpauth")
                   \/ url_Parse(uri).Host # Str("totp"))) =>
        (err # "nil" /\ token = NilToken)
\* A host in upper case is rejected although path and query are valid.
C7_Witness ==
    /\ Built
    /\ uri = Str("otpauth://TOTP/alice?secret=ME")
    /\ err = "ErrHost"

\* v is a base-10 integer between lo and hi (lo >= 0): an optional '+', then
\* digits that, without leading zeros, spell a number of lo..hi.
IsIntegerIn(v, lo, hi) ==
    LET body == IF Len(v) > 0 /\ v[1] = 43 THEN SubSeq(v, 2, Len(v)) ELSE v
    IN  /\ Len(body) > 0
        /\ \A i \in 1..Len(body) : body[i] \in 48..57
        /\ \E n \in lo..hi : StripZeros(Tup([i \in 1..Len(body) |-> body[i] - 48])) = MagOf(n)

\* C9: a present digits (period) parameter is accepted if and only if it is a
\* base-10 integer in [6, 10] ([1, 90]): no URI is accepted with another
\* value, and a value in the range never causes a digits (period) error.
C9_DigitsPeriodAccepted ==
    Built =>
        /\ (Has(Params, Str("digits")) /\ err = "nil") => IsIntegerIn(Get(Params, Str("digits")), 6, 10)
        /\ (Has(Params, Str("digits")) /\ IsIntegerIn(Get(Params, Str("digits")), 6, 10)) =>
              err \notin {"ErrDigitsAtoi", "ErrDigitsRange"}
        /\ (Has(Params, Str("period")) /\ err = "nil") => IsIntegerIn(Get(Params, Str("period")), 1, 90)
        /\ (Has(Params, Str("period")) /\ IsIntegerIn(Get(Params, Str("period")), 1, 90)) =>
              err \notin {"ErrPeriodAtoi", "ErrPeriodRange"}
\* The upper boundary of period is accepted.
C9_Witness ==
    /\ Accepted
    /\ uri = Str("otpauth://totp/alice?secret=ME&period=90")
    /\ Period(token) = 90

(***************************************************************************)
(* Properties of the generator.                                            *)
(***************************************************************************)
\* The test vectors of RFC 6238, appendix B: the 8-digit TOTP of the secret
\* "12345678901234567890" with time step 30.
RfcOTP(algorithm, m) ==
    IF algorithm = "SHA1"
    THEN (IF m = 59 THEN "94287082" ELSE IF m = 1111111109 THEN "07081804"
          ELSE IF m = 1111111111 THEN "14050471" ELSE IF m = 1234567890 THEN "89005924"
          ELSE IF m = 2000000000 THEN "69279037" ELSE "")
    ELSE IF algorithm = "SHA256"
    THEN (IF m = 59 THEN "32247374" ELSE IF m = 1111111109 THEN "34756375"
          ELSE IF m = 1111111111 THEN "74584430" ELSE IF m = 1234567890 THEN "42829826"
          ELSE IF m = 2000000000 THEN "78428693" ELSE "")
    ELSE (IF m = 59 THEN "69342147" ELSE IF m = 1111111109 THEN "63049338"
          ELSE IF m = 1111111111 THEN "54380122" ELSE IF m = 1234567890 THEN "76671578"
          ELSE IF m = 2000000000 THEN "56464532" ELSE "")
\* The number a string of decimal digits spells.
RECURSIVE DecValue(_)
DecValue(ds) ==
    IF ds = "" THEN 0
    ELSE 10 * DecValue(SubSeq(ds, 1, Len(ds) - 1))
         + ((CHOOSE i \in 1..10 : DecDigits[i] = SubSeq(ds, Len(ds), Len(ds))) - 1)
\* The name of the algorithm that the parameter value v spells.
AlgorithmNamed(v) ==
    IF v = Str("SHA1") THEN "SHA1" ELSE IF v = Str("SHA256") THEN "SHA256" ELSE "SHA512"
\* The last d characters of s.
LastChars(s, d) == SubSeq(s, Len(s) - d + 1, Len(s))

\* C3: Generate returns exactly digits characters, each a decimal digit, the
\* number zero-padded on the left and never cut: read as a number the string
\* is the truncated value modulo 10^digits (the value itself for 10 digits).
C3_ExactlyDigitsCharacters ==
    \A c \in Callers :
        ret[c].op = "Generate" =>
            /\ Digits(token) \in 6..10
            /\ Len(ret[c].val) = Digits(token)
            /\ \A i \in 1..Len(ret[c].val) :
                  SubSeq(ret[c].val, i, i) \in {"0", "1", "2", "3", "4", "5", "6", "7", "8", "9"}
            /\ DecValue(ret[c].val) =
                  (IF Digits(token) = 10 THEN dt_value(mac[c])
                   ELSE dt_value(mac[c]) % (10 ^ Digits(token)))
\* A 10-digit OTP of value 1, nine zeros on its left.
C3_Witness ==
    /\ ret[1].op = "Generate"
    /\ Digits(token) = 10
    /\ dt_value(mac[1]) = 1
    /\ ret[1].val = "0000000001"

\* C4: with the RFC secret and period 30, Generate returns the RFC 6238 test
\* vector of the algorithm and time: all eight digits of it for digits = 8,
\* its last six for digits = 6.
C4_RfcVectors ==
    \A c \in Callers :
        ret[c].op = "Generate" =>
            ret[c].val = LastChars(RfcOTP(Algorithm(token), ret[c].at), Digits(token))
\* SHA1 at 1111111109, a vector with a leading zero.
C4_Witness ==
    /\ ret[1].op = "Generate"
    /\ ret[1].at = 1111111109
    /\ Algorithm(token) = "SHA1"
    /\ Digits(token) = 8
    /\ Period(token) = 30
    /\ ret[1].val = "07081804"

\* C8: a URI with an algorithm parameter is accepted if and only if the value
\* is exactly SHA1, SHA256 or SHA512; Algorithm() then returns that string and
\* Generate returns the test vector of that hash.
C8_AlgorithmExact ==
    (Built /\ Has(Params, Str("algorithm"))) =>
        /\ err = "nil" <=>
              Get(Params, Str("algorithm")) \in {Str("SHA1"), Str("SHA256"), Str("SHA512")}
        /\ err # "nil" => err = "ErrAlgorithm"
        /\ \A c \in Callers :
              /\ ret[c].op = "Algorithm" => Str(ret[c].val) = Get(Params, Str("algorithm"))
              /\ ret[c].op = "Generate" =>
                    ret[c].val =
                        LastChars(RfcOTP(AlgorithmNamed(Get(Params, Str("algorithm"))),
                                         ret[c].at),
                                  Digits(token))
\* algorithm=SHA256 accepted, and Generate at 59 gives the SHA-256 vector.
C8_Witness ==
    /\ uri = Str(RfcBase \o "&algorithm=SHA256&digits=8")
    /\ err = "nil"
    /\ Algorithm(token) = "SHA256"
    /\ ret[1].op = "Generate"
    /\ ret[1].at = 59
    /\ ret[1].val = "32247374"

\* What Generate(m) returns for the token of ConcURI when it runs alone: the
\* SHA-1 vector of RFC 6238 for m, which TestGenerate expects of a single call
\* (and C4_RfcVectors checks of one under SpecGen).
SequentialOTP(m) == RfcOTP(algorithmSHA1, m)
\* A step of a caller: one that leaves a caller inside Generate or with a result.
\* (CallNewToken happens once, before any caller has started.)
CallerStep == \E c \in Callers : pc'[c] # "idle" \/ ret'[c].op # "none"

\* C10: no step of Generate or of an accessor, by any caller in any
\* interleaving, changes the token; and every Generate(t) returns what
\* Generate(t) returns when it runs alone.
C10_TokenImmutableGenerateDeterministic ==
    /\ [][CallerStep => token' = token]_vars
    /\ [](\A c \in Callers :
              ret[c].op = "Generate" =>
                  /\ ret[c].val = SequentialOTP(ret[c].at)
                  /\ \A d \in Callers :
                        (ret[d].op = "Generate" /\ ret[d].at = ret[c].at) =>
                            ret[d].val = ret[c].val)
\* Caller 2 has finished Generate(59) while caller 1 is inside
\* Generate(1111111109), its message built and its MAC not yet computed.
C10_Witness ==
    /\ pc[1] = "hmac"
    /\ at[1] = 1111111109
    /\ ret[2].op = "Generate"
    /\ ret[2].at = 59
    /\ ret[2].val = "94287082"

(***************************************************************************)
(* Properties of the counter and its message.                              *)
(***************************************************************************)
\* Caller c is inside Generate: its message is built.
InGenerate(c) == pc[c] \in {"hmac", "dt"}
\* The last four bytes of an 8-byte message, read as a signed 32-bit number.
MsgLow32(m) ==
    (IF m[5] >= 128 THEN m[5] - 256 ELSE m[5]) * 16777216 + m[6] * 65536 + m[7] * 256 + m[8]
\* Its first four bytes.
MsgHigh32(m) == SubSeq(m, 1, 4)
\* floor(t / p) for p > 0: below zero, one less than minus floor((-t - 1) / p).
Floor(t, p) == IF t >= 0 THEN t \div p ELSE (0 - 1) - (((0 - t) - 1) \div p)

\* C11: the counter Generate uses is floor(t / period), for negative t too: the
\* message of a Generate in progress holds floor(at / period).
C11_CounterIsFloor ==
    \A c \in Callers :
        InGenerate(c) => MsgLow32(msg[c]) = Floor(at[c], Period(token))

\* C12 as stated: the message is the 8-byte big-endian encoding of the counter
\* modulo 2^64 with no masking: for a counter C of 32 bits the first four bytes
\* are the sign extension (0 or 255 each) and the last four are C.
C12_MsgIsCounterMod2To64 ==
    \A c \in Callers :
        InGenerate(c) =>
            /\ Len(msg[c]) = 8
            /\ MsgLow32(msg[c]) = Counter(token, at[c])
            /\ MsgHigh32(msg[c]) =
                  (IF Counter(token, at[c]) >= 0 THEN <<0, 0, 0, 0>>
                   ELSE <<255, 255, 255, 255>>)
\* C12 amended: the message is the 8-byte big-endian encoding of the counter
\* with bit 63 cleared (the mask 0x7f on the first byte): C itself for C >= 0,
\* C + 2^63 for C < 0, whose first byte is 127; messages of distinct counters
\* differ, the last four bytes being the counter.
C12_MsgIsCounterMod2To63 ==
    \A c \in Callers :
        InGenerate(c) =>
            /\ Len(msg[c]) = 8
            /\ \A i \in 1..8 : msg[c][i] \in 0..255
            /\ MsgLow32(msg[c]) = Counter(token, at[c])
            /\ MsgHigh32(msg[c]) =
                  (IF Counter(token, at[c]) >= 0 THEN <<0, 0, 0, 0>>
                   ELSE <<127, 255, 255, 255>>)
\* Generate at time -31 with period 30: the counter is -1, the first byte 127.
C12_Witness ==
    /\ InGenerate(1)
    /\ at[1] = -31
    /\ Period(token) = 30
    /\ msg[1] = <<127, 255, 255, 255, 255, 255, 255, 255>>

\* The bytes hotp reads for the 31-bit value: mac[i] .. mac[i+3] of the code,
\* counted from 1 here.
ReadIndices(m) == {(m[Len(m)] % 16) + k : k \in 1..4}
\* Caller c is in hotp with the MAC computed, or has returned from it.
InTruncation(c) == pc[c] = "dt" \/ ret[c].op = "Generate"

\* C13: in hotp the offset is in 0..15 and the four bytes read lie within the
\* MAC, whose length is 20, 32 or 64 by the algorithm; the value n is in
\* 0..2^31-1; the value returned is in 0..10^digits-1 for digits 6..9 and is
\* n itself, unchanged by the reduction, for digits = 10.
C13_TruncationInBounds ==
    \A c \in Callers :
        InTruncation(c) =>
            /\ Len(mac[c]) = MacLen(Algorithm(token))
            /\ Len(mac[c]) \in {20, 32, 64}
            /\ dt_offset(mac[c]) \in 0..15
            /\ dt_offset(mac[c]) = mac[c][Len(mac[c])] % 16
            /\ ReadIndices(mac[c]) \subseteq 1..(Len(mac[c]) - 1)
            /\ dt_value(mac[c]) \in 0..2147483647
            /\ Digits(token) \in 6..10
            /\ ret[c].op = "Generate" =>
                  IF Digits(token) = 10 THEN DecValue(ret[c].val) = dt_value(mac[c])
                  ELSE DecValue(ret[c].val) \in 0..((10 ^ Digits(token)) - 1)
\* The largest offset in the shortest MAC, all value bits set: n = 2^31 - 1,
\* returned whole as a 10-digit OTP.
C13_Witness ==
    /\ ret[1].op = "Generate"
    /\ Len(mac[1]) = 20
    /\ dt_offset(mac[1]) = 15
    /\ dt_value(mac[1]) = 2147483647
    /\ Digits(token) = 10
    /\ ret[1].val = "2147483647"

\* The rules of NewToken in the order of validation; the label and the issuer
\* have no rule that can be violated.
RuleOrder == <<"syntax", "scheme", "host", "secret", "algorithm", "digits", "period">>
\* The rules the URL u with the query parameters q violates, each rule taken
\* by itself; a parameter is read with Get.
ViolatedRules(u, q) ==
    {k \in 1..Len(RuleOrder) :
        \/ k = 1 /\ u.err
        \/ k = 2 /\ u.Scheme # Str("otpauth")
        \/ k = 3 /\ u.Host # Str("totp")
        \/ k = 4 /\ (\/ ~Has(q, Str("secret"))
                     \/ Get(q, Str("secret")) = <<>>
                     \/ ~base32_DecodeString(strings_ToUpper(Get(q, Str("secret")))).ok)
        \/ k = 5 /\ Has(q, Str("algorithm")) /\ Get(q, Str("algorithm")) \notin {Str("SHA1"), Str("SHA256"), Str("SHA512")}
        \/ k = 6 /\ Has(q, Str("digits")) /\ ~IsIntegerIn(Get(q, Str("digits")), 6, 10)
        \/ k = 7 /\ Has(q, Str("period")) /\ ~IsIntegerIn(Get(q, Str("period")), 1, 90)}
\* The rule an error of NewToken reports.
RuleOfErr(e) ==
    IF e = "ErrParseURI" THEN 1
    ELSE IF e = "ErrScheme" THEN 2
    ELSE IF e = "ErrHost" THEN 3
    ELSE IF e \in {"ErrSecretRequired", "ErrSecretEmpty", "ErrSecretDecode"} THEN 4
    ELSE IF e = "ErrAlgorithm" THEN 5
    ELSE IF e \in {"ErrDigitsAtoi", "ErrDigitsRange"} THEN 6
    ELSE IF e \in {"ErrPeriodAtoi", "ErrPeriodRange"} THEN 7
    ELSE 0
ReportsEarliest(e, V) ==
    IF V = {} THEN e = "nil"
    ELSE RuleOfErr(e) \in V /\ \A k \in V : RuleOfErr(e) <= k
ReportsEarliestOfURL(u) == ReportsEarliest(err, ViolatedRules(u, url_Query(u)))

\* C14: NewToken validates in the order URI syntax, scheme, host, secret,
\* algorithm, digits, period and fails fast: the error it returns is the one
\* of the earliest rule the URI violates, whatever later rules it violates
\* too, and it returns no error exactly when no rule is violated.
C14_EarliestViolationReported ==
    Built => ReportsEarliestOfURL(url_Parse(uri))
\* An undecodable secret together with digits=99: the secret error.
C14_Witness ==
    /\ Built
    /\ uri = Str("otpauth://totp/alice?secret=0101&digits=99")
    /\ ViolatedRules(url_Parse(uri), Params) = {4, 6}
    /\ err = "ErrSecretDecode"
    /\ token = NilToken

\* The query keys NewToken knows, and where key occurs in the parameters q.
KnownKeys == {Str("secret"), Str("issuer"), Str("algorithm"), Str("digits"), Str("period")}
Occurrences(q, key) == {i \in 1..Len(q) : q[i][1] = key}
FirstOf(q, key) == q[CHOOSE i \in Occurrences(q, key) : \A j \in Occurrences(q, key) : i <= j][2]
LastOf(q, key) == q[CHOOSE i \in Occurrences(q, key) : \A j \in Occurrences(q, key) : j <= i][2]
\* v is a value the rule of key allows.
ValueValid(key, v) ==
    IF key = Str("secret") THEN v # <<>> /\ base32_DecodeString(strings_ToUpper(v)).ok
    ELSE IF key = Str("algorithm") THEN v \in {Str("SHA1"), Str("SHA256"), Str("SHA512")}
    ELSE IF key = Str("digits") THEN IsIntegerIn(v, 6, 10)
    ELSE IF key = Str("period") THEN IsIntegerIn(v, 1, 90)
    ELSE TRUE
\* The token p stores the valid value v of key.
Stores(p, key, v) ==
    IF key = Str("secret")
    THEN Deref(p).secret = base32_DecodeString(strings_ToUpper(v)).bytes
    ELSE IF key = Str("issuer") THEN Issuer(p) = v
    ELSE IF key = Str("algorithm") THEN Str(Algorithm(p)) = v
    ELSE IF key = Str("digits") THEN Digits(p) = IntVal(strconv_Atoi(v).n)
    ELSE Period(p) = IntVal(strconv_Atoi(v).n)
\* The first n parameters of q without the unknown keys and without every
\* occurrence of a key after its first.
RECURSIVE FirstKnown(_, _)
FirstKnown(q, n) ==
    IF n = 0 THEN <<>>
    ELSE FirstKnown(q, n - 1)
         \o (IF q[n][1] \in KnownKeys /\ \A j \in 1..(n - 1) : q[j][1] # q[n][1]
             THEN <<q[n]>> ELSE <<>>)
\* What NewToken returns for the URL u when its query is q.
ResultWithQuery(u, q) ==
    IF u.err \/ u.Scheme # Str("otpauth") \/ u.Host # Str("totp") THEN [token |-> NilToken, err |-> err]
    ELSE ProcessQuery(q, [token |-> Ref(InitToken(u)), err |-> "nil"])

\* Every occurrence of a key in q is validated and the last one is stored.
LastWins(q) ==
    \A key \in KnownKeys :
        Occurrences(q, key) # {} =>
            /\ (\E i \in Occurrences(q, key) : ~ValueValid(key, q[i][2])) => err # "nil"
            /\ err = "nil" => Stores(token, key, LastOf(q, key))
\* The first occurrence of a key in q is validated and stored, and the other
\* occurrences and the unknown keys change neither token nor error.
FirstWins(u, q) ==
    /\ \A key \in KnownKeys :
          (Occurrences(q, key) # {} /\ err = "nil") =>
              /\ ValueValid(key, FirstOf(q, key))
              /\ Stores(token, key, FirstOf(q, key))
    /\ [token |-> token, err |-> err] = ResultWithQuery(u, FirstKnown(q, Len(q)))
FirstWinsOfURL(u) == FirstWins(u, url_Query(u))

\* C15 as stated: every occurrence of a repeated key is validated, so that an
\* invalid value in any occurrence causes an error, and an accepted token
\* stores the value of the last occurrence of each key.
C15_LastOccurrenceWins ==
    Built => LastWins(Params)
\* C15 amended: only the first occurrence of a key is read.  An accepted token
\* stores the value of the first occurrence of each key, which is valid; and
\* NewToken returns what it returns without the later occurrences and without
\* the unknown keys, token and error alike.
C15_FirstOccurrenceWins ==
    Built => FirstWinsOfURL(url_Parse(uri))
\* digits twice, the second occurrence empty, and an unknown key: accepted
\* with the first value.
C15_Witness ==
    /\ Accepted
    /\ uri = Str("otpauth://totp/acme:alice?digits=10&image=x&digits&secret=ME")
    /\ Params = <<<<Str("digits"), Str("10")>>, <<Str("image"), Str("x")>>,
                  <<Str("digits"), <<>>>>, <<Str("secret"), Str("ME")>>>>
    /\ Digits(token) = 10

====
